---- MODULE Spec2Model ----
(***************************************************************************)
(* U64Set of tinyset: a set of 64-bit words stored in one of nine          *)
(* representations (inline or Robin-Hood heap table, slot width 8, 16, 32  *)
(* or 64 bits, plus the 64-bit table with a relocatable sentinel).         *)
(*                                                                         *)
(* A 64-bit word is written as four 16-bit limbs, most significant first,  *)
(* so that every u64 of the program is represented exactly.  usize         *)
(* quantities (counts, indices, capacities) are plain naturals.            *)
(***************************************************************************)
EXTENDS Integers, Sequences, FiniteSets, TLC

VARIABLES set, refset, last, other, fits, map, refmap, mlast

vars == <<set, refset, last, other, fits, map, refmap, mlast>>

---------------------------------------------------------------------------
(* 64-bit words *)

U(n) == <<0, 0, 0, n>>

Lt(a, b) ==
    \/ a[1] < b[1]
    \/ a[1] = b[1] /\ a[2] < b[2]
    \/ a[1] = b[1] /\ a[2] = b[2] /\ a[3] < b[3]
    \/ a[1] = b[1] /\ a[2] = b[2] /\ a[3] = b[3] /\ a[4] < b[4]

Ge(a, b) == ~Lt(a, b)

wrapping_sub1(a) ==
    IF a[4] > 0 THEN <<a[1], a[2], a[3], a[4] - 1>>
    ELSE IF a[3] > 0 THEN <<a[1], a[2], a[3] - 1, 65535>>
    ELSE IF a[2] > 0 THEN <<a[1], a[2] - 1, 65535, 65535>>
    ELSE IF a[1] > 0 THEN <<a[1] - 1, 65535, 65535, 65535>>
    ELSE <<65535, 65535, 65535, 65535>>

(* `x as u8`, `x as u16`, `x as u32`, `x as u64`, then widened again *)
cast(w, x) ==
    CASE w = 8  -> <<0, 0, 0, x[4] % 256>>
      [] w = 16 -> <<0, 0, 0, x[4]>>
      [] w = 32 -> <<0, 0, x[3], x[4]>>
      [] OTHER  -> x

(* HasInvalid::invalid(): the all-ones value of the width *)
invalid(w) ==
    CASE w = 8  -> <<0, 0, 0, 255>>
      [] w = 16 -> <<0, 0, 0, 65535>>
      [] w = 32 -> <<0, 0, 65535, 65535>>
      [] OTHER  -> <<65535, 65535, 65535, 65535>>

(* HasInvalid::hash_usize(): a deterministic mix of the word; only its   *)
(* low bits are ever used (every use is masked with len - 1).             *)
hash_usize(x) ==
    ((x[4] % 256) * 5 + (x[4] \div 256) * 3 + x[3] * 7 + x[2] * 11 + x[1] * 13) % 64

---------------------------------------------------------------------------
(* Representations *)

NUM_U8 == 22
NUM_U16 == 11
NUM_U32 == 5
NUM_U64 == 2

Small == {"Su8", "Su16", "Su32", "Su64"}
Heap == {"Vu8", "Vu16", "Vu32", "Vu64", "Badu64"}

width(tag) ==
    CASE tag \in {"Su8", "Vu8"}   -> 8
      [] tag \in {"Su16", "Vu16"} -> 16
      [] tag \in {"Su32", "Vu32"} -> 32
      [] OTHER -> 64

NUM(w) ==
    CASE w = 8  -> NUM_U8
      [] w = 16 -> NUM_U16
      [] w = 32 -> NUM_U32
      [] OTHER  -> NUM_U64

Stag(w) == CASE w = 8 -> "Su8" [] w = 16 -> "Su16" [] w = 32 -> "Su32" [] OTHER -> "Su64"
Vtag(w) == CASE w = 8 -> "Vu8" [] w = 16 -> "Vu16" [] w = 32 -> "Vu32" [] OTHER -> "Vu64"

(* arrays are 0-indexed in the program *)
At(v, i) == v[i + 1]
Put(v, i, x) == [v EXCEPT ![i + 1] = x]
RECURSIVE Fill(_, _)
Fill(x, n) == IF n = 0 THEN <<>> ELSE Append(Fill(x, n - 1), x)

RECURSIVE pow2ge(_, _)
pow2ge(p, n) == IF p >= n THEN p ELSE pow2ge(2 * p, n)

(* a table sized to the slots asked for, not rounded up *)
not_rounded(n) == IF n = 0 THEN 1 ELSE n

next_power_of_two(n) == pow2ge(1, n)

capacity_to_rawcapacity(cap) == next_power_of_two((cap * 11) \div 10)

mkset(tag, sz, v) == [tag |-> tag, sz |-> sz, v |-> v]

(* with_max_cap whose bands include the sentinel: max <= invalid instead  *)
(* of max < invalid *)
with_max_cap_inclusive(max, cap) ==
    IF ~Lt(invalid(8), max) THEN
        IF cap <= NUM_U8 THEN mkset("Su8", 0, Fill(invalid(8), NUM_U8))
        ELSE mkset("Vu8", 0, Fill(invalid(8), next_power_of_two((cap * 11) \div 10)))
    ELSE IF ~Lt(invalid(16), max) THEN
        IF cap <= NUM_U16 THEN mkset("Su16", 0, Fill(invalid(16), NUM_U16))
        ELSE mkset("Vu16", 0, Fill(invalid(16), next_power_of_two((cap * 11) \div 10)))
    ELSE IF ~Lt(invalid(32), max) THEN
        IF cap <= NUM_U32 THEN mkset("Su32", 0, Fill(invalid(32), NUM_U32))
        ELSE mkset("Vu32", 0, Fill(invalid(32), next_power_of_two((cap * 11) \div 10)))
    ELSE IF Lt(max, invalid(64)) THEN
        IF cap <= NUM_U64 THEN mkset("Su64", 0, Fill(invalid(64), NUM_U64))
        ELSE mkset("Vu64", 0, Fill(invalid(64), next_power_of_two((cap * 11) \div 10)))
    ELSE mkset("Badu64", 0,
               Fill(invalid(64), next_power_of_two(((cap + 1) * 11) \div 10) + 1))

with_max_cap(max, cap) ==
    IF Lt(max, invalid(8)) THEN
        IF cap <= NUM_U8 THEN mkset("Su8", 0, Fill(invalid(8), NUM_U8))
        ELSE mkset("Vu8", 0, Fill(invalid(8), next_power_of_two((cap * 11) \div 10)))
    ELSE IF Lt(max, invalid(16)) THEN
        IF cap <= NUM_U16 THEN mkset("Su16", 0, Fill(invalid(16), NUM_U16))
        ELSE mkset("Vu16", 0, Fill(invalid(16), next_power_of_two((cap * 11) \div 10)))
    ELSE IF Lt(max, invalid(32)) THEN
        IF cap <= NUM_U32 THEN mkset("Su32", 0, Fill(invalid(32), NUM_U32))
        ELSE mkset("Vu32", 0, Fill(invalid(32), next_power_of_two((cap * 11) \div 10)))
    ELSE IF Lt(max, invalid(64)) THEN
        IF cap <= NUM_U64 THEN mkset("Su64", 0, Fill(invalid(64), NUM_U64))
        ELSE mkset("Vu64", 0, Fill(invalid(64), next_power_of_two((cap * 11) \div 10)))
    ELSE mkset("Badu64", 0,
               Fill(invalid(64), next_power_of_two(((cap + 1) * 11) \div 10) + 1))

with_max_and_capacity(max, cap) == with_max_cap(max, cap)

(* the Vu64 arm is taken for cap >= 2^32 - 1 only: no table of that size  *)
(* is ever built here, every cap used is below 2^32 - 1 *)
with_capacity(cap) ==
    LET nextcap == capacity_to_rawcapacity(cap) IN
    IF cap <= NUM_U8 THEN mkset("Su8", 0, Fill(invalid(8), NUM_U8))
    ELSE IF cap < 255 THEN mkset("Vu8", 0, Fill(invalid(8), nextcap))
    ELSE IF cap < 65535 THEN mkset("Vu16", 0, Fill(invalid(16), nextcap))
    ELSE mkset("Vu32", 0, Fill(invalid(32), nextcap))

len(s) == s.sz

rawcapacity(s) ==
    IF s.tag \in Small THEN NUM(width(s.tag))
    ELSE IF s.tag = "Badu64" THEN Len(s.v) - 1
    ELSE Len(s.v)

---------------------------------------------------------------------------
(* Robin-Hood search and displacement *)

(* x & mask for a table whose length is a power of two; the operands may  *)
(* be negative after a wrapping subtraction    *)
band(x, v) == x % Len(v)

Res(kind, i) == [kind |-> kind, i |-> i]

(* plain linear probing: the walk never stops at a richer occupant *)
RECURSIVE search_linear(_, _, _, _, _)
search_linear(v, h, dist, elem, inv) ==
    LET i == band(h + dist, v) IN
    IF At(v, i) = inv THEN Res("Empty", i)
    ELSE IF At(v, i) = elem THEN Res("Present", i)
    ELSE IF dist + 1 > Len(v) THEN Res("Panic", i)
    ELSE search_linear(v, h, dist + 1, elem, inv)

RECURSIVE search_loop(_, _, _, _, _)
search_loop(v, h, dist, elem, inv) ==
    LET i == band(h + dist, v) IN
    IF At(v, i) = inv THEN Res("Empty", i)
    ELSE IF At(v, i) = elem THEN Res("Present", i)
    ELSE LET his_dist == band(i - hash_usize(At(v, i)), v) IN
         IF his_dist < dist THEN Res("Richer", i)
         ELSE IF dist + 1 > Len(v) THEN Res("Panic", i)
         ELSE search_loop(v, h, dist + 1, elem, inv)

search(v, elem, inv) == search_loop(v, hash_usize(elem), 0, elem, inv)

search_from(v, i_start, elem, inv) ==
    LET h == hash_usize(elem) IN
    search_loop(v, h, band(i_start - h, v), elem, inv)

(* steal: carry elem onward until an empty slot takes it.  fuel bounds    *)
(* the number of swaps the model follows; running out is reported.        *)
RECURSIVE steal_loop(_, _, _, _, _)

(* the match on the result r of search_from *)
steal_match(v, elem, inv, fuel, r) ==
    CASE r.kind = "Present" -> [v |-> v, end |-> "Present"]
      [] r.kind = "Empty"   -> [v |-> Put(v, r.i, elem), end |-> "Empty"]
      [] r.kind = "Panic"   -> [v |-> v, end |-> "Panic"]
      [] OTHER ->
            IF fuel = 0 THEN [v |-> v, end |-> "Diverge"]
            ELSE steal_loop(Put(v, r.i, elem), r.i, At(v, r.i), inv, fuel - 1)

steal_loop(v, i, elem, inv, fuel) ==
    steal_match(v, elem, inv, fuel, search_from(v, i, elem, inv))

(* steal that gives up at once, as through the Present branch: the       *)
(* carried element is dropped *)
steal_drop(v, i, elem, inv) == [v |-> v, end |-> "Present"]

steal(v, i, elem, inv) == steal_loop(v, i, elem, inv, Len(v) * Len(v))

---------------------------------------------------------------------------
(* contains *)

(* Option<usize>; fail marks a run that ended in a failed assertion *)
None == [some |-> FALSE, i |-> 0, fail |-> FALSE]
Some(i) == [some |-> TRUE, i |-> i, fail |-> FALSE]
Failed == [some |-> FALSE, i |-> 0, fail |-> TRUE]

found(r) ==
    CASE r.kind = "Present" -> Some(r.i)
      [] r.kind = "Panic"   -> Failed
      [] OTHER -> None

RECURSIVE scan(_, _, _, _)
scan(v, sz, value, i) ==
    IF i >= sz THEN None
    ELSE IF At(v, i) = value THEN Some(i)
    ELSE scan(v, sz, value, i + 1)

(* the table proper of a heap form: Badu64 keeps its sentinel in one      *)
(* extra trailing cell *)
slots(s) == IF s.tag = "Badu64" THEN SubSeq(s.v, 1, Len(s.v) - 1) ELSE s.v

sentinel(s) ==
    IF s.tag = "Badu64" THEN At(s.v, Len(s.v) - 1) ELSE invalid(width(s.tag))

(* contains without the `value >= invalid` early returns: the word is   *)
(* truncated to the slot width and looked up *)
contains_unguarded(s, value) ==
    IF s.tag \in Small THEN scan(s.v, s.sz, cast(width(s.tag), value), 0)
    ELSE IF s.tag = "Badu64" THEN
        found(search(SubSeq(s.v, 1, Len(s.v) - 1), value, At(s.v, Len(s.v) - 1)))
    ELSE found(search(s.v, cast(width(s.tag), value), invalid(width(s.tag))))

contains(s, value) ==
    IF s.tag \in Small THEN
        IF Ge(value, invalid(width(s.tag))) THEN None
        ELSE scan(s.v, s.sz, cast(width(s.tag), value), 0)
    ELSE IF s.tag = "Badu64" THEN
        LET inv == At(s.v, Len(s.v) - 1) IN
        IF value = inv THEN None
        ELSE found(search(SubSeq(s.v, 1, Len(s.v) - 1), value, inv))
    ELSE
        IF Ge(value, invalid(width(s.tag))) THEN None
        ELSE found(search(s.v, cast(width(s.tag), value), invalid(width(s.tag))))

---------------------------------------------------------------------------
(* insert_unchecked *)

(* Ok(i) / Err(i) of the program, or a failed run (index out of bounds,   *)
(* failed assertion) *)
Outcome(s, ok, i, fail) == [set |-> s, ok |-> ok, i |-> i, fail |-> fail]

(* search + store + steal on one table; shared by insert_unchecked and    *)
(* the resize arms of reserve_with_max *)
stolen(i, st) ==
    [v |-> st.v, kind |-> "Richer", i |-> i, fail |-> st.end \in {"Panic", "Diverge"}]

(* the match on the result r of search *)
table_insert_match(v, value, inv, r) ==
    CASE r.kind = "Present" -> [v |-> v, kind |-> "Present", i |-> r.i, fail |-> FALSE]
      [] r.kind = "Empty"   -> [v |-> Put(v, r.i, value), kind |-> "Empty", i |-> r.i,
                                fail |-> FALSE]
      [] r.kind = "Panic"   -> [v |-> v, kind |-> "Panic", i |-> r.i, fail |-> TRUE]
      [] OTHER -> stolen(r.i, steal(Put(v, r.i, value), r.i, At(v, r.i), inv))

table_insert(v, value, inv) == table_insert_match(v, value, inv, search(v, value, inv))

(* the decrement-with-wrap loop that picks a new sentinel; c is the       *)
(* result of self.contains(&invalid) *)
RECURSIVE pick_invalid(_, _, _)

pick_invalid_test(s, inv, fuel, c) ==
    IF c.fail THEN [inv |-> inv, fail |-> TRUE]
    ELSE IF ~c.some THEN [inv |-> inv, fail |-> FALSE]
    ELSE IF fuel = 0 THEN [inv |-> inv, fail |-> TRUE]
    ELSE pick_invalid(s, wrapping_sub1(inv), fuel - 1)

(* the new sentinel taken without looking whether it is an element *)
pick_invalid_unchecked(s, inv, fuel) == [inv |-> inv, fail |-> FALSE]

pick_invalid(s, inv, fuel) == pick_invalid_test(s, inv, fuel, contains(s, inv))

RECURSIVE replace_all(_, _, _)
(* a rewrite that reaches the trailing cell only: the empty slots keep    *)
(* the old sentinel *)
replace_last(v, old, new) == SubSeq(v, 1, Len(v) - 1) \o <<new>>

replace_all(v, old, new) ==
    IF v = <<>> THEN <<>>
    ELSE <<IF Head(v) = old THEN new ELSE Head(v)>> \o replace_all(Tail(v), old, new)

(* inline arm: f is the result of the scan for the truncated value *)
inline_insert(s, value, f) ==
    IF f.some THEN Outcome(s, FALSE, f.i, FALSE)
    ELSE IF s.sz >= Len(s.v) THEN Outcome(s, FALSE, s.sz, TRUE)
    ELSE Outcome(mkset(s.tag, s.sz + 1, Put(s.v, s.sz, value)), TRUE, s.sz, FALSE)

(* heap arm: t is the result of search + store + steal on the table *)
heap_insert(s, t) ==
    IF t.kind = "Present" THEN Outcome(s, FALSE, t.i, t.fail)
    ELSE IF t.kind = "Panic" THEN Outcome(s, FALSE, t.i, TRUE)
    ELSE Outcome(mkset(s.tag, s.sz + 1, t.v), TRUE, t.i, t.fail)

(* Badu64 arm, last part: the table result t is joined with the trailing  *)
(* cell again *)
badu64_insert(s, cell, t) ==
    IF t.kind = "Present"
    THEN Outcome(mkset(s.tag, s.sz, t.v \o <<cell>>), FALSE, t.i, t.fail)
    ELSE Outcome(mkset(s.tag, s.sz + 1, t.v \o <<cell>>), TRUE, t.i, t.fail)

(* Badu64 arm, middle part: v1 is the vector after the sentinel has been  *)
(* rewritten; the search runs on v1 without its trailing cell *)
badu64_search(s, value0, v1, inv) ==
    badu64_insert(s, v1[Len(v1)], table_insert(SubSeq(v1, 1, Len(v1) - 1), value0, inv))

(* Badu64 arm, first part: p is the sentinel picked *)
badu64_relocate(s, value0, old_invalid, p) ==
    IF p.fail THEN Outcome(s, FALSE, 0, TRUE)
    ELSE badu64_search(s, value0,
                       IF old_invalid # p.inv
                       THEN replace_all(s.v, old_invalid, p.inv) ELSE s.v,
                       p.inv)

badu64_invalid(s, value0, old_invalid) ==
    badu64_relocate(s, value0, old_invalid,
                    IF value0 = old_invalid
                    THEN pick_invalid(s, wrapping_sub1(old_invalid), s.sz + 1)
                    ELSE [inv |-> old_invalid, fail |-> FALSE])

insert_unchecked(s, value0) ==
    IF s.tag \in Small THEN
        inline_insert(s, cast(width(s.tag), value0),
                      scan(s.v, s.sz, cast(width(s.tag), value0), 0))
    ELSE IF s.tag = "Badu64" THEN badu64_invalid(s, value0, At(s.v, Len(s.v) - 1))
    ELSE heap_insert(s, table_insert(s.v, cast(width(s.tag), value0),
                                     invalid(width(s.tag))))

---------------------------------------------------------------------------
(* remove *)

(* delete that empties slot i and moves nothing back *)
shift_back_none(v, i, inv, fuel) == [v |-> Put(v, i, inv), fail |-> FALSE]

(* backward-shift delete starting at slot i; fuel bounds the moves the    *)
(* model follows *)
RECURSIVE shift_back(_, _, _, _)
shift_back(v, i, inv, fuel) ==
    LET iplus1 == band(i + 1, v) IN
    IF At(v, iplus1) = inv \/ band(hash_usize(At(v, iplus1)) - iplus1, v) = 0
    THEN [v |-> Put(v, i, inv), fail |-> FALSE]
    ELSE IF fuel = 0 THEN [v |-> v, fail |-> TRUE]
    ELSE shift_back(Put(v, i, At(v, iplus1)), iplus1, inv, fuel - 1)

Removed(s, ret, fail) == [set |-> s, ret |-> ret, fail |-> fail]

(* inline arm: f is the result of the scan; the last element of the      *)
(* prefix takes the place of the removed one *)
inline_remove(s, f) ==
    IF f.some
    THEN Removed(mkset(s.tag, s.sz - 1, Put(s.v, f.i, At(s.v, s.sz - 1))), TRUE, FALSE)
    ELSE Removed(s, FALSE, FALSE)

(* b is the table after the backward shift, rest the cells kept behind it *)
shifted(s, b, rest) == Removed(mkset(s.tag, s.sz - 1, b.v \o rest), TRUE, b.fail)

(* heap arms: the match on the result r of search in the table v *)
heap_remove(s, v, inv, rest, r) ==
    CASE r.kind = "Present" -> shifted(s, shift_back(v, r.i, inv, Len(v)), rest)
      [] r.kind = "Panic" -> Removed(s, FALSE, TRUE)
      [] OTHER -> Removed(s, FALSE, FALSE)

(* remove without the early returns for words the width does not admit:  *)
(* the word is truncated to the slot width and looked up *)
remove_unguarded(s, value0) ==
    IF s.tag \in Small THEN
        inline_remove(s, scan(s.v, s.sz, cast(width(s.tag), value0), 0))
    ELSE heap_remove(s, slots(s), sentinel(s),
                     IF s.tag = "Badu64" THEN <<sentinel(s)>> ELSE <<>>,
                     search(slots(s), cast(width(s.tag), value0), sentinel(s)))

remove(s, value0) ==
    IF s.tag \in Small THEN
        IF Ge(value0, invalid(width(s.tag))) THEN Removed(s, FALSE, FALSE)
        ELSE inline_remove(s, scan(s.v, s.sz, cast(width(s.tag), value0), 0))
    ELSE IF s.tag = "Badu64" THEN
        IF value0 = sentinel(s) THEN Removed(s, FALSE, FALSE)
        ELSE heap_remove(s, slots(s), sentinel(s), <<sentinel(s)>>,
                         search(slots(s), value0, sentinel(s)))
    ELSE
        IF Ge(value0, invalid(width(s.tag))) THEN Removed(s, FALSE, FALSE)
        ELSE heap_remove(s, s.v, invalid(width(s.tag)), <<>>,
                         search(s.v, cast(width(s.tag), value0), invalid(width(s.tag))))

---------------------------------------------------------------------------
(* iter and drain *)

Yield(out, fail) == [out |-> out, fail |-> fail]

(* Iter::next that takes the next cell whatever it holds *)
skip_nothing(slice, inv) == [slice |-> slice, fail |-> Len(slice) = 0]

(* the `while slice[0] == invalid` loop of Iter::next; indexing an     *)
(* empty slice fails *)
RECURSIVE skip_invalid(_, _)
skip_invalid(slice, inv) ==
    IF Len(slice) = 0 THEN [slice |-> slice, fail |-> TRUE]
    ELSE IF slice[1] = inv THEN skip_invalid(Tail(slice), inv)
    ELSE [slice |-> slice, fail |-> FALSE]

(* Iter::next called until it returns None *)
RECURSIVE iter_all(_, _, _, _)
iter_all(slice, nleft, inv, out) ==
    IF nleft = 0 THEN Yield(out, FALSE)
    ELSE IF Len(slice) < nleft THEN Yield(out, TRUE)
    ELSE LET k == skip_invalid(slice, inv) IN
         IF k.fail THEN Yield(out, TRUE)
         ELSE iter_all(Tail(k.slice), nleft - 1, inv, Append(out, k.slice[1]))

iter(s) ==
    IF s.tag \in Small THEN iter_all(SubSeq(s.v, 1, s.sz), s.sz, invalid(width(s.tag)), <<>>)
    ELSE IF s.tag = "Badu64"
         THEN iter_all(SubSeq(s.v, 1, Len(s.v) - 1), s.sz, At(s.v, Len(s.v) - 1), <<>>)
    ELSE iter_all(s.v, s.sz, invalid(width(s.tag)), <<>>)

(* the `while val == invalid` loop of Drain::next; popping an empty    *)
(* vector fails *)
RECURSIVE pop_valid(_, _)
pop_valid(slice, inv) ==
    IF Len(slice) = 0 THEN [slice |-> slice, val |-> inv, fail |-> TRUE]
    ELSE IF slice[Len(slice)] = inv THEN pop_valid(SubSeq(slice, 1, Len(slice) - 1), inv)
    ELSE [slice |-> SubSeq(slice, 1, Len(slice) - 1), val |-> slice[Len(slice)],
          fail |-> FALSE]

(* Drain::next called until it returns None *)
RECURSIVE drain_all(_, _, _, _)
drain_all(slice, nleft, inv, out) ==
    IF nleft = 0 THEN Yield(out, FALSE)
    ELSE IF Len(slice) < nleft THEN Yield(out, TRUE)
    ELSE LET k == pop_valid(slice, inv) IN
         IF k.fail THEN Yield(out, TRUE)
         ELSE drain_all(k.slice, nleft - 1, inv, Append(out, k.val))

(* drain that replaces the cells but leaves the count as it was *)
drain_keep_count(s) ==
    IF s.tag \in Small THEN
        [set |-> mkset(s.tag, s.sz, Fill(invalid(width(s.tag)), NUM(width(s.tag)))),
         slice |-> SubSeq(s.v, 1, s.sz), nleft |-> s.sz, inv |-> invalid(width(s.tag))]
    ELSE IF s.tag = "Badu64" THEN
        [set |-> mkset(s.tag, s.sz, Fill(invalid(64), Len(s.v))),
         slice |-> s.v, nleft |-> s.sz, inv |-> At(s.v, Len(s.v) - 1)]
    ELSE
        [set |-> mkset(s.tag, s.sz, Fill(invalid(width(s.tag)), Len(s.v))),
         slice |-> s.v, nleft |-> s.sz, inv |-> invalid(width(s.tag))]

(* drain: the emptied set, and the Drain object (slice, nleft, invalid)  *)
drain(s) ==
    IF s.tag \in Small THEN
        [set |-> mkset(s.tag, 0, Fill(invalid(width(s.tag)), NUM(width(s.tag)))),
         slice |-> SubSeq(s.v, 1, s.sz), nleft |-> s.sz, inv |-> invalid(width(s.tag))]
    ELSE IF s.tag = "Badu64" THEN
        [set |-> mkset(s.tag, 0, Fill(invalid(64), Len(s.v))),
         slice |-> s.v, nleft |-> s.sz, inv |-> At(s.v, Len(s.v) - 1)]
    ELSE
        [set |-> mkset(s.tag, 0, Fill(invalid(width(s.tag)), Len(s.v))),
         slice |-> s.v, nleft |-> s.sz, inv |-> invalid(width(s.tag))]

---------------------------------------------------------------------------
(* reserve_with_max *)

Reserved(s, fail) == [set |-> s, fail |-> fail]

(* `for x in xs { n.insert_unchecked(x).ok(); }` *)
RECURSIVE insert_each(_, _, _)

(* o is the outcome of the k-th insert_unchecked *)
insert_each_from(xs, k, o) ==
    IF o.fail THEN Reserved(o.set, TRUE) ELSE insert_each(o.set, xs, k + 1)

insert_each(n, xs, k) ==
    IF k > Len(xs) THEN Reserved(n, FALSE)
    ELSE insert_each_from(xs, k, insert_unchecked(n, xs[k]))

(* the rebuild loop of the resize arms: every live cell of oldv is put    *)
(* into the fresh table v; the count is not touched *)
RECURSIVE rebuild(_, _, _, _)

(* t is the result of search + store + steal for the k-th old cell *)
rebuild_from(oldv, k, inv, t) ==
    IF t.fail THEN [v |-> t.v, fail |-> TRUE] ELSE rebuild(t.v, oldv, k + 1, inv)

(* a resize that allocates the new table and moves nothing into it *)
rebuild_nothing(v, oldv, k, inv) == [v |-> v, fail |-> FALSE]

rebuild(v, oldv, k, inv) ==
    IF k > Len(oldv) THEN [v |-> v, fail |-> FALSE]
    ELSE IF oldv[k] = inv THEN rebuild(v, oldv, k + 1, inv)
    ELSE rebuild_from(oldv, k, inv, table_insert(v, oldv[k], inv))

(* the arms that build a new set n and move the elements xs into it: an   *)
(* inline array is read up to sz, a heap table through iter() *)
migrate(s, n, it) ==
    IF it.fail THEN Reserved(s, TRUE) ELSE insert_each(n, it.out, 1)

(* the resize arms: r is the rebuilt table, rest the cells kept behind it *)
resized(s, r, rest) == Reserved(mkset(s.tag, s.sz, r.v \o rest), r.fail)

(* a reservation that leaves an inline array one cell early: it moves to *)
(* the heap when count + additional reaches the inline capacity *)
reserve_early(s, max, additional) ==
    IF (s.tag \in Small \/ s.tag \in {"Vu8", "Vu16", "Vu32"})
       /\ Ge(max, invalid(width(s.tag))) THEN
        migrate(s, with_max_and_capacity(max, s.sz + additional),
                IF s.tag \in Small THEN Yield(SubSeq(s.v, 1, s.sz), FALSE) ELSE iter(s))
    ELSE IF s.tag \in Small THEN
        IF s.sz + additional >= NUM(width(s.tag)) THEN
            migrate(s,
                    mkset(Vtag(width(s.tag)), 0,
                          Fill(invalid(width(s.tag)),
                               next_power_of_two(((s.sz + additional) * 11) \div 10))),
                    Yield(SubSeq(s.v, 1, s.sz), FALSE))
        ELSE Reserved(s, FALSE)
    ELSE IF s.tag = "Vu64" /\ Ge(max, invalid(64)) THEN
        Reserved(s, TRUE)
    ELSE IF s.tag = "Badu64" THEN
        IF s.sz + additional + 1 > (Len(s.v) * 10) \div 11 THEN
            resized(s,
                    rebuild(Fill(sentinel(s),
                                 next_power_of_two(((s.sz + additional + 1) * 11) \div 10)),
                            s.v, 1, sentinel(s)),
                    <<sentinel(s)>>)
        ELSE Reserved(s, FALSE)
    ELSE
        IF s.sz + additional > (Len(s.v) * 10) \div 11 THEN
            resized(s,
                    rebuild(Fill(invalid(width(s.tag)),
                                 next_power_of_two(((s.sz + additional) * 11) \div 10)),
                            s.v, 1, invalid(width(s.tag))),
                    <<>>)
        ELSE Reserved(s, FALSE)

reserve_with_max(s, max, additional) ==
    IF (s.tag \in Small \/ s.tag \in {"Vu8", "Vu16", "Vu32"})
       /\ Ge(max, invalid(width(s.tag))) THEN
        migrate(s, with_max_and_capacity(max, s.sz + additional),
                IF s.tag \in Small THEN Yield(SubSeq(s.v, 1, s.sz), FALSE) ELSE iter(s))
    ELSE IF s.tag \in Small THEN
        IF s.sz + additional > NUM(width(s.tag)) THEN
            migrate(s,
                    mkset(Vtag(width(s.tag)), 0,
                          Fill(invalid(width(s.tag)),
                               next_power_of_two(((s.sz + additional) * 11) \div 10))),
                    Yield(SubSeq(s.v, 1, s.sz), FALSE))
        ELSE Reserved(s, FALSE)
    ELSE IF s.tag = "Vu64" /\ Ge(max, invalid(64)) THEN
        Reserved(s, TRUE)
    ELSE IF s.tag = "Badu64" THEN
        IF s.sz + additional + 1 > (Len(s.v) * 10) \div 11 THEN
            resized(s,
                    rebuild(Fill(sentinel(s),
                                 next_power_of_two(((s.sz + additional + 1) * 11) \div 10)),
                            s.v, 1, sentinel(s)),
                    <<sentinel(s)>>)
        ELSE Reserved(s, FALSE)
    ELSE
        IF s.sz + additional > (Len(s.v) * 10) \div 11 THEN
            resized(s,
                    rebuild(Fill(invalid(width(s.tag)),
                                 next_power_of_two(((s.sz + additional) * 11) \div 10)),
                            s.v, 1, invalid(width(s.tag))),
                    <<>>)
        ELSE Reserved(s, FALSE)

(* insert: reserve_with_max(elem, 1), then insert_unchecked(elem).is_ok() *)
is_ok(o) == [set |-> o.set, ret |-> o.ok, fail |-> o.fail]

(* r is what reserve_with_max left *)
insert_reserved(s, elem, r) ==
    IF r.fail THEN [set |-> s, ret |-> FALSE, fail |-> TRUE]
    ELSE is_ok(insert_unchecked(r.set, elem))

(* insert that skips reserve_with_max: the element goes into the         *)
(* representation as it is *)
insert_unreserved(s, elem) == is_ok(insert_unchecked(s, elem))

insert(s, elem) == insert_reserved(s, elem, reserve_with_max(s, elem, 1))

---------------------------------------------------------------------------
(* reserve and extend *)

(* reserve: only the two Su8 arms exist, every other representation runs  *)
(* into unimplemented!() *)
reserve(s, additional) ==
    IF s.tag = "Su8" THEN
        IF s.sz + additional > NUM_U8 THEN
            migrate(s,
                    mkset("Vu8", 0,
                          Fill(invalid(8),
                               next_power_of_two(((s.sz + additional) * 11) \div 10))),
                    Yield(SubSeq(s.v, 1, s.sz), FALSE))
        ELSE Reserved(s, FALSE)
    ELSE Reserved(s, TRUE)

(* `for i in iter { self.insert(i); }` *)
RECURSIVE insert_all(_, _, _)

insert_all_from(xs, k, r) ==
    IF r.fail THEN Reserved(r.set, TRUE) ELSE insert_all(r.set, xs, k + 1)

insert_all(s, xs, k) ==
    IF k > Len(xs) THEN Reserved(s, FALSE)
    ELSE insert_all_from(xs, k, insert(s, xs[k]))

(* r is what reserve(sz) left *)
extend_reserved(xs, r) == IF r.fail THEN r ELSE insert_all(r.set, xs, 1)

(* Extend::extend for an iterator whose size_hint is its length *)
extend(s, xs) == extend_reserved(xs, reserve(s, Len(xs)))

---------------------------------------------------------------------------
(* union and equality of two sets (Set64<u64>: to_u64 and from_u64 are    *)
(* the identity) *)

(* `for x in rhs.iter() { s.insert(x); }`, r is s after the first loop *)
bitor_rhs(ys, r) ==
    IF r.fail \/ ys.fail THEN Reserved(r.set, TRUE) ELSE insert_all(r.set, ys.out, 1)

(* `for x in self.iter() { s.insert(x); }` *)
bitor_lhs(xs, ys, s) ==
    IF xs.fail THEN Reserved(s, TRUE) ELSE bitor_rhs(ys, insert_all(s, xs.out, 1))

bitor(a, b) == bitor_lhs(iter(a), iter(b), with_capacity(len(a) + len(b)))

(* the loop of eq over other.iter() *)
eq_each(a, ys) ==
    [ret |-> \A k \in 1..Len(ys.out) : contains(a, ys.out[k]).some,
     fail |-> ys.fail \/ \E k \in 1..Len(ys.out) : contains(a, ys.out[k]).fail]

(* equality by element count alone *)
eq_len_only(a, b) == [ret |-> len(a) = len(b), fail |-> FALSE]

eq(a, b) ==
    IF len(a) # len(b) THEN [ret |-> FALSE, fail |-> FALSE] ELSE eq_each(a, iter(b))

---------------------------------------------------------------------------
(* Fits64: the encoding of an element type in a 64-bit word.  A value of  *)
(* an 8- or 16-bit integer type is an integer; `checks` says whether the  *)
(* build has overflow checks (a debug build panics on arithmetic          *)
(* overflow, a release build wraps). *)

Types == {"i8", "i16", "u8", "u16"}
Signed == {"i8", "i16"}

size_of(ty) == IF ty \in {"i8", "u8"} THEN 1 ELSE 2

modulus(ty) == IF size_of(ty) = 1 THEN 256 ELSE 65536

MIN(ty) == IF ty \in Signed THEN -(modulus(ty) \div 2) ELSE 0

MAX(ty) == IF ty \in Signed THEN (modulus(ty) \div 2) - 1 ELSE modulus(ty) - 1

(* `n as u64` for n of a type of at most 16 bits: sign extension *)
as_u64(n) == IF n >= 0 THEN U(n) ELSE <<65535, 65535, 65535, n + 65536>>

(* `x as $ty` for a word x: truncation, the top bit is the sign *)
as_ty(ty, x) ==
    IF ty \in Signed /\ x[4] % modulus(ty) >= modulus(ty) \div 2
    THEN (x[4] % modulus(ty)) - modulus(ty)
    ELSE x[4] % modulus(ty)

(* `x << 1` and `x >> 1` on u64 *)
shl1(x) ==
    <<((x[1] * 2) % 65536) + (x[2] \div 32768),
      ((x[2] * 2) % 65536) + (x[3] \div 32768),
      ((x[3] * 2) % 65536) + (x[4] \div 32768),
      (x[4] * 2) % 65536>>

shr1(x) ==
    <<x[1] \div 2,
      ((x[1] % 2) * 32768) + (x[2] \div 2),
      ((x[2] % 2) * 32768) + (x[3] \div 2),
      ((x[3] % 2) * 32768) + (x[4] \div 2)>>

wrapping_add1(a) ==
    IF a[4] < 65535 THEN <<a[1], a[2], a[3], a[4] + 1>>
    ELSE IF a[3] < 65535 THEN <<a[1], a[2], a[3] + 1, 0>>
    ELSE IF a[2] < 65535 THEN <<a[1], a[2] + 1, 0, 0>>
    ELSE IF a[1] < 65535 THEN <<a[1] + 1, 0, 0, 0>>
    ELSE <<0, 0, 0, 0>>

Word(x, fail) == [x |-> x, fail |-> fail]

Val(v, fail) == [v |-> v, fail |-> fail]

(* `a + b` on u64, b being 0 or 1 *)
add_u64(a, b, checks) ==
    IF b = 0 THEN Word(a, FALSE)
    ELSE Word(wrapping_add1(a), checks /\ a = invalid(64))

(* `self.abs()`: the absolute value of MIN overflows, to MIN itself when  *)
(* the build wraps *)
abs(ty, t, checks) ==
    IF t = MIN(ty) THEN Val(t, checks)
    ELSE Val(IF t < 0 THEN -t ELSE t, FALSE)

(* `a * b` in the type *)
mul(ty, a, b, checks) ==
    Val(((a * b - MIN(ty)) % modulus(ty)) + MIN(ty),
        checks /\ (a * b < MIN(ty) \/ a * b > MAX(ty)))

(* `(self as $uty >> (8*size_of::<Self>()-1)) as u64` *)
sign_bit(ty, t) == (t % modulus(ty)) \div (modulus(ty) \div 2)

(* define_ifits::to_u64 after `self.abs()` *)
to_u64_signed(ty, t, checks, a) ==
    IF a.fail THEN Word(U(0), TRUE)
    ELSE add_u64(shl1(as_u64(a.v)), sign_bit(ty, t), checks)

to_u64(ty, t, checks) ==
    IF ty \in Signed THEN to_u64_signed(ty, t, checks, abs(ty, t, checks))
    ELSE Word(as_u64(t), FALSE)

(* define_ifits::from_u64: `abs*(neg*(-2)+1)`, define_fits: `x as $ty` *)
from_u64(ty, x, checks) ==
    IF ty \in Signed
    THEN mul(ty, as_ty(ty, shr1(x)), (as_ty(ty, U(x[4] % 2)) * (-2)) + 1, checks)
    ELSE Val(as_ty(ty, x), FALSE)

---------------------------------------------------------------------------
(* U64Map: keys in one of eight representations, with a companion array   *)
(* of values.  The inline forms keep values in 8 bits, a heap form keeps   *)
(* them in the width of its keys.  Vu64 keeps its sentinel in one extra    *)
(* trailing cell of keys. *)

MAP_NUM_U8 == 23
MAP_NUM_U16 == 15
MAP_NUM_U32 == 9
MAP_NUM_U64 == 4

MAP_NUM(w) ==
    CASE w = 8  -> MAP_NUM_U8
      [] w = 16 -> MAP_NUM_U16
      [] w = 32 -> MAP_NUM_U32
      [] OTHER  -> MAP_NUM_U64

mkmap(tag, sz, keys, vals) == [tag |-> tag, sz |-> sz, keys |-> keys, vals |-> vals]

(* an empty heap map of width w with a table of n slots *)
mkheap(w, n, key, val) ==
    mkmap(Vtag(w), 0, Fill(key, IF w = 64 THEN n + 1 ELSE n), Fill(val, n))

(* cap is a natural of the model, so below u32::invalid() *)
map_with_capacity(cap) ==
    IF cap <= MAP_NUM_U8 THEN mkmap("Su8", 0, Fill(U(0), MAP_NUM_U8), Fill(U(0), MAP_NUM_U8))
    ELSE IF cap < 255 THEN mkheap(8, capacity_to_rawcapacity(cap), invalid(8), invalid(8))
    ELSE IF cap < 65535 THEN mkheap(16, capacity_to_rawcapacity(cap), invalid(16), invalid(16))
    ELSE mkheap(32, capacity_to_rawcapacity(cap), invalid(32), invalid(32))

(* `if max_k > max_v { max_k } else { max_v }` *)
larger(max_k, max_v) == IF Lt(max_v, max_k) THEN max_k ELSE max_v

(* with_maxes_cap after max_k has been replaced by the larger of the two *)
with_maxes_cap_of(max_k, max_v, cap) ==
    IF Lt(max_k, invalid(8)) THEN
        IF cap <= NUM_U8 /\ Lt(max_v, U(256))
        THEN mkmap("Su8", 0, Fill(U(0), MAP_NUM_U8), Fill(U(0), MAP_NUM_U8))
        ELSE mkheap(8, capacity_to_rawcapacity(cap), invalid(8), invalid(8))
    ELSE IF Lt(max_k, invalid(16)) THEN
        IF cap <= NUM_U16 /\ Lt(max_v, U(256))
        THEN mkmap("Su16", 0, Fill(invalid(16), MAP_NUM_U16), Fill(U(0), MAP_NUM_U16))
        ELSE mkheap(16, capacity_to_rawcapacity(cap), invalid(16), invalid(16))
    ELSE IF Lt(max_k, invalid(32)) THEN
        IF cap <= NUM_U32 /\ Lt(max_v, U(256))
        THEN mkmap("Su32", 0, Fill(invalid(32), MAP_NUM_U32), Fill(U(0), MAP_NUM_U32))
        ELSE mkheap(32, capacity_to_rawcapacity(cap), invalid(32), invalid(32))
    ELSE
        IF cap <= NUM_U64 /\ Lt(max_v, U(256))
        THEN mkmap("Su64", 0, Fill(U(0), MAP_NUM_U64), Fill(U(0), MAP_NUM_U64))
        ELSE mkheap(64, capacity_to_rawcapacity(cap), invalid(64), U(137))

with_maxes_cap(max_k, max_v, cap) == with_maxes_cap_of(larger(max_k, max_v), max_v, cap)

map_len(m) == m.sz

(* the table proper of a heap map, and its sentinel *)
map_slots(m) == IF m.tag = "Vu64" THEN SubSeq(m.keys, 1, Len(m.keys) - 1) ELSE m.keys

map_invalid(m) ==
    IF m.tag = "Vu64" THEN At(m.keys, Len(m.keys) - 1) ELSE invalid(width(m.tag))

(* the cells of keys behind the table *)
map_rest(m) == IF m.tag = "Vu64" THEN <<map_invalid(m)>> ELSE <<>>

(* Option<u64> *)
NoValue == [some |-> FALSE, v |-> U(0), fail |-> FALSE]
SomeValue(v) == [some |-> TRUE, v |-> v, fail |-> FALSE]
FailedValue == [some |-> FALSE, v |-> U(0), fail |-> TRUE]

(* get: f is the result of the scan of an inline form, r of the search of *)
(* a table *)
inline_get(vals, f) == IF f.some THEN SomeValue(At(vals, f.i)) ELSE NoValue

table_get(vals, r) ==
    CASE r.kind = "Present" -> SomeValue(At(vals, r.i))
      [] r.kind = "Panic"   -> FailedValue
      [] OTHER -> NoValue

map_get(m, k) ==
    IF m.tag = "Su64" THEN inline_get(m.vals, scan(m.keys, m.sz, k, 0))
    ELSE IF m.tag \in Small THEN
        IF Ge(k, invalid(width(m.tag))) THEN NoValue
        ELSE inline_get(m.vals, scan(m.keys, m.sz, cast(width(m.tag), k), 0))
    ELSE IF m.tag = "Vu64" THEN
        IF k = map_invalid(m) THEN NoValue
        ELSE table_get(m.vals, search(map_slots(m), k, map_invalid(m)))
    ELSE
        IF Ge(k, invalid(width(m.tag))) THEN NoValue
        ELSE table_get(m.vals, search(m.keys, cast(width(m.tag), k), invalid(width(m.tag))))

(* mapsteal: carry the pair (elem, val) onward until a slot takes it *)
RECURSIVE mapsteal_loop(_, _, _, _, _, _, _)

mapsteal_match(k, v, elem, val, inv, fuel, r) ==
    CASE r.kind = "Present" -> [k |-> k, v |-> Put(v, r.i, val), end |-> "Present"]
      [] r.kind = "Empty"   -> [k |-> Put(k, r.i, elem), v |-> Put(v, r.i, val),
                                end |-> "Empty"]
      [] r.kind = "Panic"   -> [k |-> k, v |-> v, end |-> "Panic"]
      [] OTHER ->
            IF fuel = 0 THEN [k |-> k, v |-> v, end |-> "Diverge"]
            ELSE mapsteal_loop(Put(k, r.i, elem), Put(v, r.i, val), r.i,
                               At(k, r.i), At(v, r.i), inv, fuel - 1)

mapsteal_loop(k, v, i, elem, val, inv, fuel) ==
    mapsteal_match(k, v, elem, val, inv, fuel, search_from(k, i, elem, inv))

mapsteal(k, v, i, elem, val, inv) == mapsteal_loop(k, v, i, elem, val, inv, Len(k) * Len(k))

(* search + store + mapsteal on one pair of arrays; `overwrite` is TRUE in *)
(* insert_unchecked (Present stores the value) and FALSE in the resize     *)
(* arms of reserve_with_maxes (Present does nothing) *)
mapstolen(i, st) ==
    [k |-> st.k, v |-> st.v, kind |-> "Richer", i |-> i, old |-> U(0),
     fail |-> st.end \in {"Panic", "Diverge"}]

pair_insert_match(keys, vals, k, v, inv, overwrite, r) ==
    CASE r.kind = "Present" ->
            [k |-> keys, v |-> IF overwrite THEN Put(vals, r.i, v) ELSE vals,
             kind |-> "Present", i |-> r.i, old |-> At(vals, r.i), fail |-> FALSE]
      [] r.kind = "Empty" ->
            [k |-> Put(keys, r.i, k), v |-> Put(vals, r.i, v),
             kind |-> "Empty", i |-> r.i, old |-> U(0), fail |-> FALSE]
      [] r.kind = "Panic" ->
            [k |-> keys, v |-> vals, kind |-> "Panic", i |-> r.i, old |-> U(0), fail |-> TRUE]
      [] OTHER ->
            mapstolen(r.i, mapsteal(Put(keys, r.i, k), Put(vals, r.i, v), r.i,
                                    At(keys, r.i), At(vals, r.i), inv))

pair_insert(keys, vals, k, v, inv, overwrite) ==
    pair_insert_match(keys, vals, k, v, inv, overwrite, search(keys, k, inv))

MapOutcome(m, ret, fail) == [map |-> m, ret |-> ret, fail |-> fail]

(* inline arms: k and v are truncated already, f is the result of the scan *)
map_inline_insert(m, k, v, f) ==
    IF f.some
    THEN MapOutcome(mkmap(m.tag, m.sz, m.keys, Put(m.vals, f.i, v)),
                    SomeValue(At(m.vals, f.i)), FALSE)
    ELSE IF m.sz >= Len(m.keys) THEN MapOutcome(m, NoValue, TRUE)
    ELSE MapOutcome(mkmap(m.tag, m.sz + 1, Put(m.keys, m.sz, k), Put(m.vals, m.sz, v)),
                    NoValue, FALSE)

(* heap arms: t is the result of search + store + mapsteal *)
map_heap_insert(m, rest, t) ==
    IF t.kind = "Panic" THEN MapOutcome(m, NoValue, TRUE)
    ELSE IF t.kind = "Present"
    THEN MapOutcome(mkmap(m.tag, m.sz, t.k \o rest, t.v), SomeValue(t.old), t.fail)
    ELSE MapOutcome(mkmap(m.tag, m.sz + 1, t.k \o rest, t.v), NoValue, t.fail)

(* Vu64: the sentinel is decremented until get() does not find it *)
RECURSIVE map_pick_invalid(_, _, _)

map_pick_invalid_test(m, inv, fuel, g) ==
    IF g.fail THEN [inv |-> inv, fail |-> TRUE]
    ELSE IF ~g.some THEN [inv |-> inv, fail |-> FALSE]
    ELSE IF fuel = 0 THEN [inv |-> inv, fail |-> TRUE]
    ELSE map_pick_invalid(m, wrapping_sub1(inv), fuel - 1)

map_pick_invalid(m, inv, fuel) == map_pick_invalid_test(m, inv, fuel, map_get(m, inv))

(* Vu64 with the sentinel inv written into keys *)
vu64_insert(m, keys, k, v, inv) ==
    map_heap_insert(m, <<inv>>,
                    pair_insert(SubSeq(keys, 1, Len(keys) - 1), m.vals, k, v, inv, TRUE))

(* p is the sentinel picked *)
vu64_relocated(m, k, v, p) ==
    IF p.fail THEN MapOutcome(m, NoValue, TRUE)
    ELSE vu64_insert(m, replace_all(m.keys, map_invalid(m), p.inv), k, v, p.inv)

map_insert_unchecked(m, k, v) ==
    IF m.tag \in Small THEN
        map_inline_insert(m, cast(width(m.tag), k), cast(8, v),
                          scan(m.keys, m.sz, cast(width(m.tag), k), 0))
    ELSE IF m.tag = "Vu64" THEN
        IF k = map_invalid(m)
        THEN vu64_relocated(m, k, v,
                            map_pick_invalid(m, wrapping_sub1(map_invalid(m)), Len(m.keys)))
        ELSE vu64_insert(m, m.keys, k, v, map_invalid(m))
    ELSE
        map_heap_insert(m, <<>>,
                        pair_insert(m.keys, m.vals, cast(width(m.tag), k),
                                    cast(width(m.tag), v), invalid(width(m.tag)), TRUE))

(* the pairs an inline map holds, and the live pairs of a table *)
RECURSIVE inline_pairs(_, _)
inline_pairs(m, i) ==
    IF i >= m.sz THEN <<>>
    ELSE <<<<At(m.keys, i), At(m.vals, i)>>>> \o inline_pairs(m, i + 1)

RECURSIVE heap_pairs(_, _, _, _)
heap_pairs(keys, vals, inv, i) ==
    IF i >= Len(keys) THEN <<>>
    ELSE IF At(keys, i) = inv THEN heap_pairs(keys, vals, inv, i + 1)
    ELSE <<<<At(keys, i), At(vals, i)>>>> \o heap_pairs(keys, vals, inv, i + 1)

map_pairs(m) ==
    IF m.tag \in Small THEN inline_pairs(m, 0)
    ELSE heap_pairs(map_slots(m), m.vals, map_invalid(m), 0)

MapReserved(m, fail) == [map |-> m, fail |-> fail]

(* `n.insert_unchecked(k, v)` for every pair of ps *)
RECURSIVE map_insert_each(_, _, _)

map_insert_each_from(ps, i, o) ==
    IF o.fail THEN MapReserved(o.map, TRUE) ELSE map_insert_each(o.map, ps, i + 1)

map_insert_each(n, ps, i) ==
    IF i > Len(ps) THEN MapReserved(n, FALSE)
    ELSE map_insert_each_from(ps, i, map_insert_unchecked(n, ps[i][1], ps[i][2]))

(* the rebuild loop of the resize arms; the count is not touched *)
RECURSIVE map_rebuild(_, _, _, _, _)

map_rebuild_from(ps, i, inv, t) ==
    IF t.fail THEN [k |-> t.k, v |-> t.v, fail |-> TRUE]
    ELSE map_rebuild(t.k, t.v, ps, i + 1, inv)

map_rebuild(keys, vals, ps, i, inv) ==
    IF i > Len(ps) THEN [k |-> keys, v |-> vals, fail |-> FALSE]
    ELSE map_rebuild_from(ps, i, inv, pair_insert(keys, vals, ps[i][1], ps[i][2], inv, FALSE))

map_resized(m, r) == MapReserved(mkmap(m.tag, m.sz, r.k \o map_rest(m), r.v), r.fail)

(* the Su16 arm that builds the wider map n and ends in `Some(n);`: n is   *)
(* dropped and self stays as it is *)
built_and_dropped(m, r) == MapReserved(m, r.fail)

(* the guard of the first arm of each representation *)
must_widen(m, max_k, max_v) ==
    CASE m.tag = "Su8"  -> Ge(max_k, invalid(8))
      [] m.tag = "Su16" -> Ge(max_k, invalid(16)) \/ Lt(U(255), max_v)
      [] m.tag = "Su32" -> Ge(max_k, invalid(32)) \/ Lt(U(255), max_v)
      [] m.tag = "Su64" -> Lt(U(255), max_v)
      [] OTHER -> Ge(max_k, invalid(width(m.tag)))

(* reserve_with_maxes after max_k has been replaced by the larger *)
reserve_with_maxes_of(m, max_k, max_v, additional) ==
    IF must_widen(m, max_k, max_v) THEN
        IF m.tag = "Su16"
        THEN built_and_dropped(m, map_insert_each(with_maxes_cap(max_k, max_v, m.sz + additional),
                                                  map_pairs(m), 1))
        ELSE map_insert_each(with_maxes_cap(max_k, max_v, m.sz + additional), map_pairs(m), 1)
    ELSE IF m.tag \in Small THEN
        IF m.sz + additional > MAP_NUM(width(m.tag))
        THEN map_insert_each(mkheap(width(m.tag), capacity_to_rawcapacity(m.sz + additional),
                                    invalid(width(m.tag)), U(0)),
                             map_pairs(m), 1)
        ELSE MapReserved(m, FALSE)
    ELSE IF m.sz + additional > (Len(m.keys) * 10) \div 11 THEN
        map_resized(m, map_rebuild(Fill(map_invalid(m), capacity_to_rawcapacity(m.sz + additional)),
                                   Fill(U(0), capacity_to_rawcapacity(m.sz + additional)),
                                   map_pairs(m), 1, map_invalid(m)))
    ELSE MapReserved(m, FALSE)

reserve_with_maxes(m, max_k, max_v, additional) ==
    reserve_with_maxes_of(m, larger(max_k, max_v), max_v, additional)

(* insert: r is the map after reserve_with_maxes(k, v, 1) *)
map_insert_reserved(k, v, r) ==
    IF r.fail THEN MapOutcome(r.map, NoValue, TRUE) ELSE map_insert_unchecked(r.map, k, v)

map_insert(m, k, v) == map_insert_reserved(k, v, reserve_with_maxes(m, k, v, 1))

(* remove *)
RECURSIVE map_shift_back(_, _, _, _, _)
map_shift_back(keys, vals, i, inv, fuel) ==
    IF At(keys, band(i + 1, keys)) = inv
       \/ band(hash_usize(At(keys, band(i + 1, keys))) - band(i + 1, keys), keys) = 0
    THEN [k |-> Put(keys, i, inv), v |-> vals, fail |-> FALSE]
    ELSE IF fuel = 0 THEN [k |-> keys, v |-> vals, fail |-> TRUE]
    ELSE map_shift_back(Put(keys, i, At(keys, band(i + 1, keys))),
                        Put(vals, i, At(vals, band(i + 1, keys))),
                        band(i + 1, keys), inv, fuel - 1)

(* inline arms: the last pair takes the place of the removed one *)
map_inline_remove(m, f) ==
    IF f.some
    THEN MapOutcome(mkmap(m.tag, m.sz - 1, Put(m.keys, f.i, At(m.keys, m.sz - 1)),
                          Put(m.vals, f.i, At(m.vals, m.sz - 1))),
                    SomeValue(At(m.vals, f.i)), FALSE)
    ELSE MapOutcome(m, NoValue, FALSE)

map_shifted(m, oldval, b) ==
    MapOutcome(mkmap(m.tag, m.sz - 1, b.k \o map_rest(m), b.v), SomeValue(oldval), b.fail)

map_heap_remove(m, keys, r) ==
    CASE r.kind = "Present" ->
            map_shifted(m, At(m.vals, r.i),
                        map_shift_back(keys, m.vals, r.i, map_invalid(m), Len(keys)))
      [] r.kind = "Panic" -> MapOutcome(m, NoValue, TRUE)
      [] OTHER -> MapOutcome(m, NoValue, FALSE)

map_remove(m, k) ==
    IF m.tag = "Su64" THEN map_inline_remove(m, scan(m.keys, m.sz, k, 0))
    ELSE IF m.tag \in Small THEN
        IF Ge(k, invalid(width(m.tag))) THEN MapOutcome(m, NoValue, FALSE)
        ELSE map_inline_remove(m, scan(m.keys, m.sz, cast(width(m.tag), k), 0))
    ELSE IF m.tag = "Vu64" THEN
        IF k = map_invalid(m) THEN MapOutcome(m, NoValue, FALSE)
        ELSE map_heap_remove(m, map_slots(m), search(map_slots(m), k, map_invalid(m)))
    ELSE
        IF Ge(k, invalid(width(m.tag))) THEN MapOutcome(m, NoValue, FALSE)
        ELSE map_heap_remove(m, m.keys,
                             search(m.keys, cast(width(m.tag), k), invalid(width(m.tag))))

---------------------------------------------------------------------------
(* The handle: `enum Data` as a 64-bit build lays it out.  A variant is   *)
(* the one-byte tag followed by its two fields, the less aligned first,   *)
(* each at the next multiple of its alignment; the union is as large as   *)
(* its largest variant, rounded up to the largest alignment.              *)

Field(size, align) == [size |-> size, align |-> align]

(* Box<[T]>: pointer and length *)
BoxSlice == Field(16, 8)

(* count fields with the width of usize in every variant *)
fields_usize_count(tag) ==
    CASE tag = "Su8"  -> <<Field(8, 8), Field(NUM_U8, 1)>>
      [] tag = "Su16" -> <<Field(8, 8), Field(2 * NUM_U16, 2)>>
      [] tag = "Su32" -> <<Field(8, 8), Field(4 * NUM_U32, 4)>>
      [] tag = "Su64" -> <<Field(8, 8), Field(8 * NUM_U64, 8)>>
      [] OTHER        -> <<Field(8, 8), BoxSlice>>

fields(tag) ==
    CASE tag = "Su8"  -> <<Field(1, 1), Field(NUM_U8, 1)>>
      [] tag = "Vu8"  -> <<Field(1, 1), BoxSlice>>
      [] tag = "Su16" -> <<Field(1, 1), Field(2 * NUM_U16, 2)>>
      [] tag = "Vu16" -> <<Field(2, 2), BoxSlice>>
      [] tag = "Su32" -> <<Field(1, 1), Field(4 * NUM_U32, 4)>>
      [] tag = "Vu32" -> <<Field(4, 4), BoxSlice>>
      [] tag = "Su64" -> <<Field(4, 4), Field(8 * NUM_U64, 8)>>
      [] OTHER        -> <<Field(4, 4), BoxSlice>>

align_up(n, a) == ((n + a - 1) \div a) * a

(* the end of field f placed at or after offset n *)
place(n, f) == align_up(n, f.align) + f.size

(* bytes of a variant whose fields are fs: the tag, then the two fields *)
variant_bytes(fs) ==
    IF fs[1].align <= fs[2].align THEN place(place(1, fs[1]), fs[2])
    ELSE place(place(1, fs[2]), fs[1])

variant_size(tag) == variant_bytes(fields(tag))

variant_align(tag) ==
    IF fields(tag)[1].align >= fields(tag)[2].align
    THEN fields(tag)[1].align ELSE fields(tag)[2].align

Max(S) == CHOOSE x \in S : \A y \in S : y <= x

(* std::mem::size_of::<U64Set>() *)
size_of_U64Set ==
    align_up(Max({variant_size(tag) : tag \in Small \cup Heap}),
             Max({variant_align(tag) : tag \in Small \cup Heap}))

---------------------------------------------------------------------------
(* USizeSet (usizeset.rs): a set of usize with four representations, Su8  *)
(* (22 inline cells), Vu8, Su16 (11 inline cells) and Vu16.  Its search,  *)
(* search_from and steal are the ones of U64Set with the sentinel fixed   *)
(* to T::invalid(); a usize is written as a 64-bit word.                  *)

usize_new == mkset("Su8", 0, Fill(invalid(8), 22))

(* Data::with_max_cap; the last arm is unimplemented!() *)
usize_with_max_cap(max, cap) ==
    IF Lt(max, invalid(8)) THEN
        IF cap <= 22 THEN Reserved(mkset("Su8", 0, Fill(invalid(8), 22)), FALSE)
        ELSE Reserved(mkset("Vu8", 0,
                            Fill(invalid(8), next_power_of_two((cap * 11) \div 10))),
                      FALSE)
    ELSE IF Lt(max, invalid(16)) THEN
        IF cap <= 11 THEN Reserved(mkset("Su16", 0, Fill(invalid(16), 11)), FALSE)
        ELSE Reserved(mkset("Vu16", 0,
                            Fill(invalid(16), next_power_of_two((cap * 11) \div 10))),
                      FALSE)
    ELSE Reserved(usize_new, TRUE)

usize_with_capacity(cap) ==
    IF cap <= 22 THEN usize_new
    ELSE IF cap < 255 THEN mkset("Vu8", 0, Fill(invalid(8), capacity_to_rawcapacity(cap)))
    ELSE mkset("Vu16", 0, Fill(invalid(16), capacity_to_rawcapacity(cap)))

usize_len(s) == s.sz

(* insert_unchecked: the Su16 and Vu16 arms are unimplemented!() *)
usize_insert_unchecked(s, value) ==
    IF s.tag = "Su8" THEN
        inline_insert(s, cast(8, value), scan(s.v, s.sz, cast(8, value), 0))
    ELSE IF s.tag = "Vu8" THEN
        heap_insert(s, table_insert(s.v, cast(8, value), invalid(8)))
    ELSE Outcome(s, FALSE, 0, TRUE)

(* `for i in 0..sz { n.insert_unchecked(v[i]); }` *)
RECURSIVE usize_insert_each(_, _, _)

usize_insert_each_from(xs, k, o) ==
    IF o.fail THEN Reserved(o.set, TRUE) ELSE usize_insert_each(o.set, xs, k + 1)

usize_insert_each(n, xs, k) ==
    IF k > Len(xs) THEN Reserved(n, FALSE)
    ELSE usize_insert_each_from(xs, k, usize_insert_unchecked(n, xs[k]))

(* n is the set the first arm builds *)
usize_migrate(s, n) ==
    IF n.fail THEN Reserved(s, TRUE)
    ELSE usize_insert_each(n.set, SubSeq(s.v, 1, s.sz), 1)

(* reserve_with_max: only the Su8 arms exist *)
usize_reserve_with_max(s, max, additional) ==
    IF s.tag = "Su8" /\ Ge(max, U(255)) THEN
        usize_migrate(s, usize_with_max_cap(max, s.sz + additional))
    ELSE IF s.tag = "Su8" /\ s.sz + additional > 22 THEN
        usize_insert_each(mkset("Vu8", 0,
                                Fill(invalid(8),
                                     next_power_of_two(((s.sz + additional) * 11) \div 10))),
                          SubSeq(s.v, 1, s.sz), 1)
    ELSE IF s.tag = "Su8" THEN Reserved(s, FALSE)
    ELSE Reserved(s, TRUE)

usize_insert_reserved(s, elem, r) ==
    IF r.fail THEN [set |-> s, ret |-> FALSE, fail |-> TRUE]
    ELSE is_ok(usize_insert_unchecked(r.set, elem))

usize_insert(s, elem) == usize_insert_reserved(s, elem, usize_reserve_with_max(s, elem, 1))

(* contains: the Su16 and Vu16 arms are unimplemented!() *)
usize_contains(s, value) ==
    IF s.tag = "Su8" THEN
        IF Ge(value, invalid(8)) THEN None ELSE scan(s.v, s.sz, cast(8, value), 0)
    ELSE IF s.tag = "Vu8" THEN
        IF Ge(value, invalid(8)) THEN None
        ELSE found(search(s.v, cast(8, value), invalid(8)))
    ELSE Failed

(* remove: the Su16 and Vu16 arms are unimplemented!() *)
usize_remove(s, value) ==
    IF s.tag = "Su8" THEN
        IF Ge(value, invalid(8)) THEN Removed(s, FALSE, FALSE)
        ELSE inline_remove(s, scan(s.v, s.sz, cast(8, value), 0))
    ELSE IF s.tag = "Vu8" THEN
        IF Ge(value, invalid(8)) THEN Removed(s, FALSE, FALSE)
        ELSE heap_remove(s, s.v, invalid(8), <<>>, search(s.v, cast(8, value), invalid(8)))
    ELSE Removed(s, FALSE, TRUE)

---------------------------------------------------------------------------
(* The state machine: one set, driven through its public operations, with *)
(* a mathematical reference set updated in parallel (as the property      *)
(* tests of the crate do with a HashSet).                                 *)

MAXU64 == <<65535, 65535, 65535, 65535>>

(* the words the operations are called with: both sides of every width's  *)
(* sentinel, and the top of the 64-bit range *)
Pool ==
    << U(0), U(255), U(65535), <<0, 0, 65535, 65535>>, MAXU64,
       <<65535, 65535, 65535, 65534>>, U(1), <<0, 1, 0, 0>>,
       <<65535, 65535, 65535, 65533>>, <<65535, 65535, 65535, 65532>>,
       U(256), <<0, 0, 1, 0>>, U(254) >>

NVals == 6

Values == {Pool[k] : k \in 1..NVals}

(* the words membership is observed at: the pool, with words that alias   *)
(* pool words when truncated and the words just below 2^64 - 1 *)
Probes == {Pool[k] : k \in 1..Len(Pool)}

(* one `max` per admissibility band, and the capacities that select each  *)
(* arm of the constructors *)
Maxes == {U(1), U(255), U(65535), <<0, 0, 65535, 65535>>, MAXU64}
Additionals == {0, 1, 2, NUM_U8 + 1}
Caps == {1, NUM_U8 + 1}
MaxCaps == {0, NUM_U64 + 1, NUM_U16 + 1}

(* what extend is called with: nothing, one word, two neighbours of the   *)
(* pool *)
Iterables ==
    {<<>>} \cup {<<x>> : x \in Values} \cup {<<Pool[k], Pool[k + 1]>> : k \in 1..(NVals - 1)}

(* a second set, built by a fixed sequence of inserts (TRUE) and removes  *)
(* (FALSE), with the contents that sequence leaves *)
RECURSIVE build(_, _, _)
build(s, steps, k) ==
    IF k > Len(steps) THEN s
    ELSE build(IF steps[k][1] THEN insert(s, steps[k][2]).set
               ELSE remove(s, steps[k][2]).set,
               steps, k + 1)

RECURSIVE refbuild(_, _, _)
refbuild(ref, steps, k) ==
    IF k > Len(steps) THEN ref
    ELSE refbuild(IF steps[k][1] THEN ref \cup {steps[k][2]} ELSE ref \ {steps[k][2]},
                  steps, k + 1)

Built(steps) == [set |-> build(with_capacity(1), steps, 1), ref |-> refbuild({}, steps, 1)]

(* second operands: empty, inline of two widths and two orders, a 64-bit  *)
(* table, the same table after removes, and the relocatable form          *)
OtherSteps ==
    { <<>>,
      <<<<TRUE, U(0)>>>>,
      <<<<TRUE, U(0)>>, <<TRUE, U(255)>>>>,
      <<<<TRUE, U(255)>>, <<TRUE, U(0)>>>>,
      <<<<TRUE, U(0)>>, <<TRUE, U(255)>>, <<TRUE, Pool[4]>>>>,
      <<<<TRUE, U(0)>>, <<TRUE, U(255)>>, <<TRUE, Pool[4]>>, <<FALSE, Pool[4]>>>>,
      <<<<TRUE, U(0)>>, <<TRUE, U(255)>>, <<TRUE, Pool[4]>>, <<FALSE, U(255)>>,
        <<FALSE, Pool[4]>>>>,
      <<<<TRUE, MAXU64>>>>,
      <<<<TRUE, MAXU64>>, <<TRUE, U(0)>>, <<TRUE, Pool[6]>>>> }

Others == {Built(steps) : steps \in OtherSteps}

(* every value of the 8-bit types; of the 16-bit types the values within *)
(* Edge of the least, of zero and of the greatest *)
Edge == 40

FitsValues(ty) ==
    IF size_of(ty) = 1 THEN MIN(ty)..MAX(ty)
    ELSE (MIN(ty)..(MIN(ty) + Edge)) \cup ((MAX(ty) - Edge)..MAX(ty))
         \cup (IF ty \in Signed THEN (-Edge)..Edge ELSE {})

Fit(ty, t, checks) ==
    [ty |-> ty, t |-> t, checks |-> checks, pc |-> "start", x |-> U(0), y |-> 0]

(* the record of a call on the map: the arguments and the Option returned *)
MapDone(op, k, v, ret, fail) == [op |-> op, k |-> k, v |-> v, ret |-> ret, fail |-> fail]

(* the map of a run that uses none: `U64Map::with_capacity(0)`, untouched *)
NoMap ==
    /\ map = map_with_capacity(0)
    /\ refmap = <<>>
    /\ mlast = MapDone("new", U(0), U(0), NoValue, FALSE)

(* keys of three widths, 0 and 257 sharing their home slot in the small  *)
(* tables, and values of three widths *)
MapKeys == {U(0), U(257), MAXU64}
MapVals == {U(1), U(256), <<0, 0, 1, 0>>}

(* the reference map: a function from the keys present to their values *)
RefInsert(ref, k, v) == [x \in DOMAIN ref \cup {k} |-> IF x = k THEN v ELSE ref[x]]

RefRemove(ref, k) == [x \in DOMAIN ref \ {k} |-> ref[x]]

RefGet(ref, k) == IF k \in DOMAIN ref THEN SomeValue(ref[k]) ELSE NoValue

Done(op, arg, add, ret, out) ==
    [op |-> op, arg |-> arg, add |-> add, ret |-> ret, out |-> out]

bool(b) == IF b THEN "true" ELSE "false"

running == last.ret # "panic"

Init ==
    /\ \/ \E cap \in Caps : set = with_capacity(cap)
       \/ \E max \in Maxes, cap \in MaxCaps : set = with_max_and_capacity(max, cap)
    /\ refset = {}
    /\ last = Done("new", U(0), 0, "unit", <<>>)
    /\ other = Built(<<>>)
    /\ fits = Fit("u8", 0, FALSE)
    /\ NoMap

(* the step a call leaves behind: the set, the reference set (updated    *)
(* when the call returned) and the record of the call *)
Step(s, ref, fail, op, arg, add, ret, out) ==
    /\ set' = s
    /\ refset' = (IF fail THEN refset ELSE ref)
    /\ last' = Done(op, arg, add, IF fail THEN "panic" ELSE ret, out)
    /\ other' = other
    /\ fits' = fits
    /\ UNCHANGED <<map, refmap, mlast>>

Inserted(x, r) == Step(r.set, refset \cup {x}, r.fail, "insert", x, 0, bool(r.ret), <<>>)

Insert(x) == running /\ Inserted(x, insert(set, x))

Removing(x, r) == Step(r.set, refset \ {x}, r.fail, "remove", x, 0, bool(r.ret), <<>>)

Remove(x) == running /\ Removing(x, remove(set, x))

ReservedWithMax(max, additional, r) ==
    Step(r.set, refset, r.fail, "reserve_with_max", max, additional, "unit", <<>>)

ReserveWithMax(max, additional) ==
    running /\ ReservedWithMax(max, additional, reserve_with_max(set, max, additional))

Consumed(d, y) == Step(d.set, {}, y.fail, "drain", U(0), 0, "unit", y.out)

Drained(d) == Consumed(d, drain_all(d.slice, d.nleft, d.inv, <<>>))

(* drain(), and the returned Drain consumed to its end *)
DrainAll == running /\ Drained(drain(set))

Reserving(additional, r) ==
    Step(r.set, refset, r.fail, "reserve", U(0), additional, "unit", <<>>)

Reserve(additional) == running /\ Reserving(additional, reserve(set, additional))

Extending(xs, r) ==
    Step(r.set, refset \cup {xs[k] : k \in 1..Len(xs)}, r.fail, "extend", U(0), 0, "unit", xs)

Extend(xs) == running /\ Extending(xs, extend(set, xs))

(* `&set | &other`: the union is a new set *)
BitOring(r) ==
    Step(r.set, refset \cup other.ref, r.fail, "bitor", U(0), 0, "unit", <<>>)

BitOr == running /\ BitOring(bitor(set, other.set))

(* `set == other` *)
Equating(r) == Step(set, refset, r.fail, "eq", U(0), 0, bool(r.ret), <<>>)

Equal == running /\ Equating(eq(set, other.set))

Next ==
    \/ \E x \in Values : Insert(x)
    \/ \E x \in Values : Remove(x)
    \/ \E max \in Maxes, additional \in Additionals : ReserveWithMax(max, additional)
    \/ DrainAll

Spec == Init /\ [][Next]_vars

(* the set driven through insert, remove, reserve and extend *)
NextReserve ==
    \/ \E x \in Values : Insert(x)
    \/ \E x \in Values : Remove(x)
    \/ \E additional \in Additionals : Reserve(additional)
    \/ \E xs \in Iterables : Extend(xs)

SpecReserve == Init /\ [][NextReserve]_vars

(* test_fits64: a value of an element type is encoded, decoded, and      *)
(* encoded again *)
Encoded(r) ==
    /\ fits' = [fits EXCEPT !.pc = IF r.fail THEN "panic" ELSE "encoded", !.x = r.x]
    /\ UNCHANGED <<set, refset, last, other, map, refmap, mlast>>

Encode == fits.pc = "start" /\ Encoded(to_u64(fits.ty, fits.t, fits.checks))

Decoded(r) ==
    /\ fits' = [fits EXCEPT !.pc = IF r.fail THEN "panic" ELSE "decoded", !.y = r.v]
    /\ UNCHANGED <<set, refset, last, other, map, refmap, mlast>>

Decode == fits.pc = "encoded" /\ Decoded(from_u64(fits.ty, fits.x, fits.checks))

Reencoded(r) ==
    /\ fits' = [fits EXCEPT !.pc = IF r.fail \/ r.x # fits.x THEN "panic" ELSE "checked"]
    /\ UNCHANGED <<set, refset, last, other, map, refmap, mlast>>

Reencode == fits.pc = "decoded" /\ Reencoded(to_u64(fits.ty, fits.y, fits.checks))

InitFits ==
    /\ set = with_capacity(1)
    /\ refset = {}
    /\ last = Done("new", U(0), 0, "unit", <<>>)
    /\ other = Built(<<>>)
    /\ \E ty \in Types, checks \in BOOLEAN :
          \E t \in FitsValues(ty) : fits = Fit(ty, t, checks)
    /\ NoMap

NextFits ==
    \/ Encode
    \/ Decode
    \/ Reencode

SpecFits == InitFits /\ [][NextFits]_vars

(* the map and its reference, as u64map_tests::prop_matches drives them *)
mrunning == ~mlast.fail

MapStep(r, ref, op, k, v) ==
    /\ map' = r.map
    /\ refmap' = (IF r.fail THEN refmap ELSE ref)
    /\ mlast' = MapDone(op, k, v, r.ret, r.fail)
    /\ UNCHANGED <<set, refset, last, other, fits>>

MapInsert(k, v) == mrunning /\ MapStep(map_insert(map, k, v), RefInsert(refmap, k, v), "insert", k, v)

MapRemove(k) == mrunning /\ MapStep(map_remove(map, k), RefRemove(refmap, k), "remove", k, U(0))

InitMap ==
    /\ set = with_capacity(1)
    /\ refset = {}
    /\ last = Done("new", U(0), 0, "unit", <<>>)
    /\ other = Built(<<>>)
    /\ fits = Fit("u8", 0, FALSE)
    /\ NoMap

NextMap ==
    \/ \E k \in MapKeys, v \in MapVals : MapInsert(k, v)
    \/ \E k \in MapKeys : MapRemove(k)

SpecMap == InitMap /\ [][NextMap]_vars

(* two sets: one driven through insert and remove, the other fixed, and   *)
(* the binary operations on the pair *)
InitPair ==
    /\ set = with_capacity(1)
    /\ refset = {}
    /\ last = Done("new", U(0), 0, "unit", <<>>)
    /\ other \in Others
    /\ fits = Fit("u8", 0, FALSE)
    /\ NoMap

(* elements of the first set: one per width, and the all-ones word *)
PairValues == {U(0), U(255), Pool[4], MAXU64}

NextPair ==
    \/ \E x \in PairValues : Insert(x)
    \/ \E x \in PairValues : Remove(x)
    \/ BitOr
    \/ Equal

SpecPair == InitPair /\ [][NextPair]_vars

---------------------------------------------------------------------------
(* USizeSet driven through insert and remove from USizeSet::new(), or     *)
(* from the set that inserting 1, 2, ..., n into USizeSet::new() leaves   *)

(* 0, 64 and 128 share their home slot; 254 is the largest u8 element,    *)
(* 255 the u8 sentinel, 300 a u16 value and 65536 one beyond u16          *)
USizeValues == {U(0), U(64), U(128), U(254), U(255), U(300), <<0, 0, 1, 0>>}

USizeProbes == USizeValues \cup {U(1), U(21), U(22)}

USizeFills == {0, 21}

RECURSIVE usize_filled(_, _, _)
usize_filled(s, k, n) ==
    IF k > n THEN s ELSE usize_filled(usize_insert(s, U(k)).set, k + 1, n)

InitUSize ==
    /\ \E n \in USizeFills :
          /\ set = usize_filled(usize_new, 1, n)
          /\ refset = {U(k) : k \in 1..n}
    /\ last = Done("new", U(0), 0, "unit", <<>>)
    /\ other = Built(<<>>)
    /\ fits = Fit("u8", 0, FALSE)
    /\ NoMap

USizeInserted(x, r) ==
    Step(r.set, refset \cup {x}, r.fail, "insert", x, 0, bool(r.ret), <<>>)

USizeInsert(x) == running /\ USizeInserted(x, usize_insert(set, x))

USizeRemoving(x, r) ==
    Step(r.set, refset \ {x}, r.fail, "remove", x, 0, bool(r.ret), <<>>)

USizeRemove(x) == running /\ USizeRemoving(x, usize_remove(set, x))

NextUSize ==
    \/ \E x \in USizeValues : USizeInsert(x)
    \/ \E x \in USizeValues \cup {U(1)} : USizeRemove(x)

SpecUSize == InitUSize /\ [][NextUSize]_vars

---------------------------------------------------------------------------
(* The set driven from inline forms one element short of their capacity:  *)
(* the states in which the next inserts fill the inline array and then    *)
(* move it to the heap                                                    *)

RECURSIVE UpTo(_, _)
UpTo(k, n) == IF k > n THEN <<>> ELSE <<U(k)>> \o UpTo(k + 1, n)

(* the words inserted into the new set: 1..21 leave Su8; 1..9 and 300    *)
(* Su16; 1..3 and 2^16 Su32; 2^32 Su64; 2^64-1 the relocatable form with  *)
(* the sentinel 2^64-2 *)
NearlyFull ==
    { UpTo(1, NUM_U8 - 1),
      UpTo(1, NUM_U16 - 2) \o <<U(300)>>,
      UpTo(1, NUM_U32 - 2) \o << <<0, 0, 1, 0>> >>,
      << <<0, 1, 0, 0>> >>,
      << MAXU64 >> }

(* words every width admits: 0 and 64 share their home slot, 1 is an      *)
(* element of three of the four sets *)
SmallValues == {U(0), U(1), U(64), U(254)}

(* words removed: the small ones, words that are a small one when        *)
(* truncated (256, 2^16, 2^32), and the sentinels 255 and 2^64-2 *)
Removals == SmallValues \cup {U(256), <<0, 0, 1, 0>>, <<0, 1, 0, 0>>, U(255), Pool[6]}

SmallMaxes == {U(1), U(65535)}

SmallAdditionals == {0, 1, 2}

InitFull ==
    /\ \E xs \in NearlyFull :
          /\ set = insert_all(with_capacity(1), xs, 1).set
          /\ refset = {xs[k] : k \in 1..Len(xs)}
    /\ last = Done("new", U(0), 0, "unit", <<>>)
    /\ other = Built(<<>>)
    /\ fits = Fit("u8", 0, FALSE)
    /\ NoMap

NextFull ==
    \/ \E x \in SmallValues : Insert(x)
    \/ \E x \in Removals : Remove(x)
    \/ \E max \in SmallMaxes, additional \in SmallAdditionals :
          ReserveWithMax(max, additional)
    \/ DrainAll

SpecFull == InitFull /\ [][NextFull]_vars

(* the map driven from inline forms that are nearly full: 22 pairs in    *)
(* Su8, 14 in Su16, 8 in Su32 and 3 in Su64, each built by insert        *)
RECURSIVE map_insert_all(_, _, _, _)

(* o is the outcome of the i-th insert *)
map_insert_all_from(ks, v, i, o) ==
    IF o.fail THEN MapReserved(o.map, TRUE) ELSE map_insert_all(o.map, ks, v, i + 1)

map_insert_all(m, ks, v, i) ==
    IF i > Len(ks) THEN MapReserved(m, FALSE)
    ELSE map_insert_all_from(ks, v, i, map_insert(m, ks[i], v))

NearlyFullMaps ==
    { UpTo(1, MAP_NUM_U8 - 1),
      <<U(300)>> \o UpTo(1, MAP_NUM_U16 - 2),
      << <<0, 0, 1, 0>> >> \o UpTo(1, MAP_NUM_U32 - 2),
      << <<0, 1, 0, 0>> >> \o UpTo(1, MAP_NUM_U64 - 2) }

FullKeys == {U(0), MAXU64}
EmptiedKeys == {U(1)}
FullVals == {U(1), U(256)}

InitMapFull ==
    /\ set = with_capacity(1)
    /\ refset = {}
    /\ last = Done("new", U(0), 0, "unit", <<>>)
    /\ other = Built(<<>>)
    /\ fits = Fit("u8", 0, FALSE)
    /\ \E ks \in NearlyFullMaps :
          /\ map = map_insert_all(map_with_capacity(0), ks, U(1), 1).map
          /\ refmap = [x \in {ks[i] : i \in 1..Len(ks)} |-> U(1)]
    /\ mlast = MapDone("new", U(0), U(0), NoValue, FALSE)

NextMapFull ==
    \/ \E k \in FullKeys, v \in FullVals : MapInsert(k, v)
    \/ \E k \in EmptiedKeys : MapRemove(k)

SpecMapFull == InitMapFull /\ [][NextMapFull]_vars

---------------------------------------------------------------------------
(* Observations used by the properties *)

Contents(s) == {x \in Probes : contains(s, x).some}

Range(q) == {q[k] : k \in 1..Len(q)}

NoDup(q) == \A j, k \in 1..Len(q) : j # k => q[j] # q[k]

(* probe distance of the occupant of slot i *)
dist(v, i) == band(i - hash_usize(At(v, i)), v)

---------------------------------------------------------------------------
(* C1: after every step and for every word x, contains(x) is Some exactly *)
(* when x is in the reference set, in every representation.               *)
C1_ContainsAgrees ==
    \A x \in Probes :
        LET c == contains(set, x) IN ~c.fail /\ (c.some <=> x \in refset)

(* a 64-bit heap table that has been resized, after an insert *)
C1_Witness ==
    /\ set.tag = "Vu64" /\ Len(set.v) = 8 /\ Cardinality(refset) = 5
    /\ last.op = "insert" /\ last.ret = "true"

(* C2: after each operation len() is the number of distinct values in the *)
(* set.                                                                   *)
C2_LenIsCardinality == len(set) = Cardinality(refset)

C2_Witness ==
    /\ last.op = "remove" /\ last.ret = "true"
    /\ set.tag \in Heap /\ len(set) >= 3

(* C3: insert(2^64-1) completes from every reachable state, leaves the    *)
(* set in the relocatable-sentinel form, contains 2^64-1 and all earlier  *)
(* elements.                                                              *)
C3_InsertMaxTotal ==
    (last.op = "insert" /\ last.arg = MAXU64) =>
        /\ last.ret # "panic"
        /\ set.tag = "Badu64"
        /\ contains(set, MAXU64).some
        /\ \A x \in refset : contains(set, x).some

(* C4: in the relocatable-sentinel form len() and contains(x) agree with  *)
(* the reference set for every x, an inserted value is contained right    *)
(* after its insert and a removed value is not contained right after its  *)
(* remove.                                                                *)
C4_RelocatableAgrees ==
    set.tag = "Badu64" =>
        /\ len(set) = Cardinality(refset)
        /\ \A x \in Probes : contains(set, x).some <=> x \in refset
        /\ last.op = "insert" => last.ret # "panic" /\ contains(set, last.arg).some
        /\ last.op = "remove" => last.ret # "panic" /\ ~contains(set, last.arg).some

(* the sentinel has been relocated twice: 2^64-1 and 2^64-2 are elements *)
C4_Witness ==
    /\ set.tag = "Badu64"
    /\ sentinel(set) = <<65535, 65535, 65535, 65533>>
    /\ MAXU64 \in refset /\ <<65535, 65535, 65535, 65534>> \in refset
    /\ Cardinality(refset) >= 4
    /\ last.op = "insert" /\ last.ret = "true"

(* C5: insert(x) returns true iff x was not in the set before the call;   *)
(* on false membership and len() are unchanged, on true membership grows  *)
(* by exactly x and len() by exactly 1.                                   *)
C5_InsertReturn ==
    [][last'.op = "insert" =>
        LET x == last'.arg IN
        /\ (last'.ret = "true") <=> ~contains(set, x).some
        /\ (last'.ret = "false") <=> contains(set, x).some
        /\ last'.ret = "false" =>
              Contents(set') = Contents(set) /\ len(set') = len(set)
        /\ last'.ret = "true" =>
              Contents(set') = Contents(set) \cup {x} /\ len(set') = len(set) + 1
      ]_vars

(* C6: remove(x) returns true iff x was in the set before the call;       *)
(* afterwards x is not contained, every other element still is, and len() *)
(* decreased by 1 exactly when true was returned.                         *)
C6_RemoveReturn ==
    [][last'.op = "remove" =>
        LET x == last'.arg IN
        /\ last'.ret \in {"true", "false"}
        /\ (last'.ret = "true") <=> contains(set, x).some
        /\ Contents(set') = Contents(set) \ {x}
        /\ len(set') = (IF last'.ret = "true" THEN len(set) - 1 ELSE len(set))
      ]_vars

(* a backward shift that moved an element: the table still holds a        *)
(* displaced element after a successful remove *)
C6_Witness ==
    /\ last.op = "remove" /\ last.ret = "true"
    /\ set.tag \in Heap /\ len(set) >= 2
    /\ \E i \in 0..(Len(slots(set)) - 1) :
          At(slots(set), i) # sentinel(set) /\ dist(slots(set), i) >= 1

(* C7: iter() ends without failure and yields each element exactly once   *)
(* and nothing else: len() items, no duplicates, never a sentinel.        *)
C7_IterYieldsSet ==
    LET it == iter(set) IN
    /\ ~it.fail
    /\ Len(it.out) = len(set)
    /\ NoDup(it.out)
    /\ Range(it.out) = refset
    /\ \A k \in 1..Len(it.out) : contains(set, it.out[k]).some
    /\ set.tag \in Heap => sentinel(set) \notin Range(it.out)

(* a relocated sentinel, empty slots and live elements *)
C7_Witness ==
    /\ set.tag = "Badu64" /\ sentinel(set) # MAXU64
    /\ len(set) >= 2 /\ len(set) < Len(set.v) - 1

(* C8: drain() yields exactly the elements present at the call, each      *)
(* once; when it has returned the set has len() 0, contains nothing, and  *)
(* takes inserts and removes like an empty set.                           *)
C8_DrainYieldsAndEmpties ==
    [][last'.op = "drain" =>
        /\ last'.ret = "unit"
        /\ Range(last'.out) = Contents(set)
        /\ Len(last'.out) = len(set)
        /\ NoDup(last'.out)
        /\ len(set') = 0
        /\ Contents(set') = {}
        /\ \A x \in Values :
              /\ ~remove(set', x).ret
              /\ LET r == insert(set', x) IN
                 ~r.fail /\ r.ret /\ Contents(r.set) = {x} /\ len(r.set) = 1
      ]_vars

(* C9: Robin-Hood ordering: for every live element E at index i of a heap *)
(* table, no slot on the probe path from home(E) to i is empty, no slot   *)
(* j before i on the path holds an occupant with a probe distance smaller *)
(* than E's walk distance at j, and Search(E) returns Present(i).         *)
C9_RobinHood ==
    set.tag \in Heap =>
        LET v == slots(set)
            inv == sentinel(set)
        IN  \A i \in 0..(Len(v) - 1) :
              At(v, i) # inv =>
                /\ \A k \in 0..(dist(v, i) - 1) :
                      LET j == band(hash_usize(At(v, i)) + k, v) IN
                      At(v, j) # inv /\ dist(v, j) >= k
                /\ search(v, At(v, i), inv) = Res("Present", i)

(* a table with an element two slots from home, after a remove *)
C9_Witness ==
    /\ set.tag \in Heap
    /\ last.op = "remove" /\ last.ret = "true"
    /\ \E i \in 0..(Len(slots(set)) - 1) :
          At(slots(set), i) # sentinel(set) /\ dist(slots(set), i) >= 2

(* C10: in every heap state count <= 10*L/11 with L the number of table   *)
(* slots, so a heap table is never completely full.                       *)
C10_LoadFactor ==
    set.tag \in Heap => 11 * len(set) <= 10 * rawcapacity(set)

(* the smallest width of {16, 32, 64} whose sentinel is above max *)
SmallestWidth(max) ==
    CHOOSE w \in {16, 32, 64} :
        /\ Lt(max, invalid(w))
        /\ \A u \in {16, 32, 64} : Lt(max, invalid(u)) => w <= u

(* insert(0), insert(1), insert(2), insert(2^15) on an empty set *)
Example0_1_2_2pow15 ==
    insert(insert(insert(insert(with_capacity(1), U(0)).set, U(1)).set, U(2)).set,
           U(32768)).set

(* C11: when reserve_with_max(max, additional) or insert(max) runs in a   *)
(* fixed-sentinel state of width W with sentinel(W) <= max < 2^64-1, the  *)
(* resulting state has the smallest width W' of {16, 32, 64} with         *)
(* max < 2^W' - 1, also when the inline array would overflow; 0, 1, 2,    *)
(* 2^15 inserted into an empty set end in a 16-bit form with len 4.       *)
C11_SmallestWidth ==
    [][(/\ last'.op \in {"insert", "reserve_with_max"}
        /\ set.tag # "Badu64"
        /\ Ge(last'.arg, invalid(width(set.tag)))
        /\ Lt(last'.arg, MAXU64))
       => /\ last'.ret # "panic"
          /\ set'.tag # "Badu64"
          /\ width(set'.tag) = SmallestWidth(last'.arg)
          /\ width(Example0_1_2_2pow15.tag) = 16
          /\ len(Example0_1_2_2pow15) = 4
      ]_vars

(* an 8-bit inline set asked for more than NUM_U8 cells and for a max of  *)
(* 255 or more at once: it went to a wider heap table, not to Vu8 *)
C11_Witness ==
    /\ last.op = "reserve_with_max"
    /\ last.add > NUM_U8
    /\ Ge(last.arg, invalid(8)) /\ Lt(last.arg, MAXU64)
    /\ set.tag \in {"Vu16", "Vu32", "Vu64"}
    /\ len(set) >= 1 /\ contains(set, U(0)).some

(* C12: reserve_with_max(max, additional) with max < 2^64-1 completes and *)
(* leaves the set of contained elements and len() as they were, whichever *)
(* transition it performs.                                                *)
C12_ReserveKeepsContents ==
    [][(last'.op = "reserve_with_max" /\ Lt(last'.arg, MAXU64))
       => /\ last'.ret = "unit"
          /\ \/ set' = set
             \/ Contents(set') = Contents(set) /\ len(set') = len(set)
      ]_vars

(* a reserve that built a heap table of a wider width and moved at least  *)
(* three elements into it *)
C12_Witness ==
    /\ last.op = "reserve_with_max" /\ last.ret = "unit"
    /\ Lt(last.arg, MAXU64) /\ Ge(last.arg, invalid(16))
    /\ set.tag \in {"Vu32", "Vu64"} /\ len(set) >= 3
    /\ width(set.tag) = SmallestWidth(last.arg)

(* C13: reserve(additional) completes in every reachable state and      *)
(* leaves membership and len() unchanged; extend(iter) completes and     *)
(* leaves the union of the old contents and the iterated values.         *)
C13_ReserveTotal ==
    [][/\ last'.op = "reserve" =>
             /\ last'.ret = "unit"
             /\ Contents(set') = Contents(set)
             /\ len(set') = len(set)
       /\ last'.op = "extend" =>
             /\ last'.ret = "unit"
             /\ Contents(set') = Contents(set) \cup Range(last'.out)
      ]_vars


(* C14: the union `&a | &b` is a new set that contains x exactly when a   *)
(* or b contains x, whose len is the number of distinct elements of the   *)
(* two, and building it neither fails nor changes an operand (the first   *)
(* operand is `set`, the second `other`; the union takes both by shared   *)
(* reference). *)
C14_Union ==
    [][last'.op = "bitor" =>
          /\ last'.ret # "panic"
          /\ \A x \in Probes :
                contains(set', x).some <=> (contains(set, x).some \/ contains(other.set, x).some)
          /\ len(set') = Cardinality(Contents(set) \cup Contents(other.set))
          /\ other' = other]_vars


(* C15: equality of two sets depends only on their elements, not on the   *)
(* representation either is in: `set == other` returns true exactly when  *)
(* both contain the same elements; it is reflexive and symmetric. *)
C15_Equality ==
    /\ last.op = "eq" => last.ret = bool(Contents(set) = Contents(other.set))
    /\ eq(set, set) = [ret |-> TRUE, fail |-> FALSE]
    /\ eq(other.set, other.set) = [ret |-> TRUE, fail |-> FALSE]
    /\ eq(set, other.set) = eq(other.set, set)

(* an inline set compared equal with a 64-bit table of the same two       *)
(* elements, left behind by inserting and removing a large value *)
C15_Witness ==
    /\ last.op = "eq"
    /\ last.ret = "true"
    /\ set.tag \in Small
    /\ other.set.tag = "Vu64"
    /\ len(set) = 2


(* C16: round trip of the word encoding: for every value t of i8 (-128    *)
(* included), i16, u8 and u16, to_u64(t) is computed and from_u64 of it   *)
(* is t again. *)
C16_RoundTrip ==
    /\ fits.pc # "panic"
    /\ fits.pc \in {"decoded", "checked"} => fits.y = fits.t

(* C17: for every i8 value v, -128 included, to_u64(v) is                 *)
(* (|v| << 1) | (1 if v < 0 else 0), and so is below 512. *)
C17_SignedEncoding ==
    (fits.ty = "i8" /\ fits.pc # "start") =>
        /\ to_u64("i8", fits.t, fits.checks) =
              Word(U(2 * (IF fits.t < 0 THEN -fits.t ELSE fits.t) + (IF fits.t < 0 THEN 1 ELSE 0)),
                   FALSE)
        /\ fits.pc = "encoded" =>
              (fits.x = to_u64("i8", fits.t, fits.checks).x /\ Lt(fits.x, U(512)))


(* C18: the map agrees with the reference map: from with_capacity(0),     *)
(* after every insert(k, v) and remove(k) the call has returned, len() is *)
(* the size of the reference map and get(i) is the reference lookup for   *)
(* every key i; no key or value is truncated. *)
C18_MapAgrees ==
    /\ ~mlast.fail
    /\ map_len(map) = Cardinality(DOMAIN refmap)
    /\ \A i \in Probes : map_get(map, i) = RefGet(refmap, i)

(* C19: insert(k, v) returns Some(old) exactly when k was present with    *)
(* value old and None otherwise; afterwards get(k) is Some(v), len() has  *)
(* grown by one only in the None case, and every other key has the value  *)
(* it had. *)
C19_MapInsert ==
    [][mlast'.op = "insert" =>
          /\ ~mlast'.fail
          /\ mlast'.ret = RefGet(refmap, mlast'.k)
          /\ map_get(map', mlast'.k) = SomeValue(mlast'.v)
          /\ map_len(map') = map_len(map) + (IF mlast'.ret.some THEN 0 ELSE 1)
          /\ \A i \in Probes \ {mlast'.k} : map_get(map', i) = map_get(map, i)]_vars

(* C20: remove(k) returns Some(v) exactly when k was present with value v *)
(* and None otherwise; afterwards get(k) is None and every other key has  *)
(* the value it had. *)
C20_MapRemove ==
    [][mlast'.op = "remove" =>
          /\ ~mlast'.fail
          /\ mlast'.ret = RefGet(refmap, mlast'.k)
          /\ map_get(map', mlast'.k) = NoValue
          /\ \A i \in Probes \ {mlast'.k} : map_get(map', i) = map_get(map, i)]_vars

---------------------------------------------------------------------------
(* C21: USizeSet agrees with a reference set: from USizeSet::new(), after *)
(* every insert or remove of arbitrary usize values the call has          *)
(* completed, len() is the size of the reference set and contains(i) is   *)
(* membership in it.                                                      *)
C21_USizeAgrees ==
    /\ last.ret # "panic"
    /\ usize_len(set) = Cardinality(refset)
    /\ \A i \in USizeProbes :
          /\ ~usize_contains(set, i).fail
          /\ usize_contains(set, i).some <=> i \in refset

---------------------------------------------------------------------------
(* C22: space contract: the handle (the tagged union of the nine          *)
(* representations, heap storage excluded) occupies at most 24 bytes on   *)
(* a 64-bit platform, whichever representation the set is in.             *)
C22_HandleSize ==
    /\ size_of_U64Set <= 24
    /\ variant_size(set.tag) <= 24

(* a full inline set of 64-bit words: tag, count and both cells take all  *)
(* 24 bytes *)
C22_Witness ==
    /\ set.tag = "Su64"
    /\ set.sz = NUM_U64
    /\ variant_size(set.tag) = 24

---------------------------------------------------------------------------
(* the words a table of the set's width is searched for: the probes as    *)
(* the operations truncate them *)
Probed(s) == {cast(width(s.tag), x) : x \in Probes}

Full(s) == \A i \in 0..(Len(slots(s)) - 1) : At(slots(s), i) # sentinel(s)

(* C23: the assertion `dist <= v.len()` of search and search_from never   *)
(* fails: in every reachable heap state, a full table included, search of *)
(* every element, present or absent, and search_from from every slot      *)
(* return Present, Empty or Richer.                                       *)
C23_SearchBounded ==
    set.tag \in Heap =>
        \A v \in {slots(set)}, inv \in {sentinel(set)} :
          \A x \in Probed(set) :
            /\ search(v, x, inv).kind \in {"Present", "Empty", "Richer"}
            /\ \A i \in 0..(Len(v) - 1) :
                  search_from(v, i, x, inv).kind \in {"Present", "Empty", "Richer"}

(* a table of at least four slots with no empty slot, searched for an     *)
(* absent element *)
C23_Witness ==
    /\ set.tag \in Heap
    /\ Len(slots(set)) >= 4
    /\ Full(set)
    /\ \E x \in Probed(set) : search(slots(set), x, sentinel(set)).kind = "Richer"

---------------------------------------------------------------------------
(* the live elements of a set, in storage order *)
Live(s) ==
    IF s.tag \in Small THEN SubSeq(s.v, 1, s.sz)
    ELSE SelectSeq(slots(s), LAMBDA y : y # sentinel(s))

Count(q, y) == Cardinality({k \in 1..Len(q) : q[k] = y})

(* the multiset of q is the multiset of p with n more copies of x *)
BagPlus(p, q, x, n) ==
    \A y \in Range(p) \cup Range(q) \cup {x} :
        Count(q, y) = Count(p, y) + (IF y = x THEN n ELSE 0)

(* the table, sentinel and element as the search of insert_unchecked(x)   *)
(* finds them in the heap set s (after a relocation of the sentinel)      *)
AtSearch(s, x) ==
    IF s.tag = "Badu64" /\ x = sentinel(s)
    THEN LET p == pick_invalid(s, wrapping_sub1(x), s.sz + 1) IN
         [v |-> replace_all(slots(s), x, p.inv), inv |-> p.inv, elem |-> x]
    ELSE [v |-> slots(s), inv |-> sentinel(s), elem |-> cast(width(s.tag), x)]

(* the end of the steal that insert_unchecked runs on the table a, "None" *)
(* when the search is not Richer *)
StealEnd(a, r) ==
    IF r.kind = "Richer"
    THEN steal(Put(a.v, r.i, a.elem), r.i, At(a.v, r.i), a.inv).end
    ELSE "None"

(* C24: the steal loop ends by writing the carried element into an Empty  *)
(* slot: whenever an insert runs a resize rebuild or insert_unchecked on  *)
(* a heap table, the rebuild keeps the multiset of live elements, the     *)
(* table searched has a sentinel slot, the loop ends after finitely many  *)
(* swaps, never through the Present branch, and the multiset of live      *)
(* elements afterwards is the old one plus the inserted element.          *)
C24_StealEndsInEmpty ==
    [][(last'.op = "insert") =>
        \A r \in {reserve_with_max(set, last'.arg, 1)} :
          (~r.fail /\ r.set.tag \in Heap) =>
            \A old \in {Live(set)}, mid \in {Live(r.set)}, new \in {Live(set')},
               a \in {AtSearch(r.set, last'.arg)} :
              /\ BagPlus(old, mid, last'.arg, 0)
              /\ ~Full(r.set)
              /\ last'.ret \in {"true", "false"}
              /\ StealEnd(a, search(a.v, a.elem, a.inv)) \in {"None", "Empty"}
              /\ BagPlus(mid, new, last'.arg, IF last'.ret = "true" THEN 1 ELSE 0)
      ]_vars

(* an insert whose element took the slot of a richer occupant: another    *)
(* element now lies beyond it on its own probe path *)
C24_Witness ==
    /\ last.op = "insert" /\ last.ret = "true"
    /\ set.tag \in Heap
    /\ \E i, j \in 0..(Len(slots(set)) - 1) :
          /\ i # j
          /\ At(slots(set), i) = cast(width(set.tag), last.arg)
          /\ At(slots(set), j) # sentinel(set)
          /\ band(i - hash_usize(At(slots(set), j)), slots(set)) < dist(slots(set), j)

---------------------------------------------------------------------------
(* the slots that hold a live element in v and the sentinel in w *)
Emptied(v, w, inv) == {j \in 0..(Len(v) - 1) : At(v, j) # inv /\ At(w, j) = inv}

(* C25: the backward-shift delete loop terminates in every reachable heap *)
(* state, a table without any sentinel slot included: the remove of a     *)
(* present element returns within L moves, exactly one slot is newly      *)
(* empty, its successor is empty or at its home, and the live elements    *)
(* afterwards are the old ones without the removed one, each once.        *)
C25_BackwardShift ==
    [][(last'.op = "remove" /\ set.tag \in Heap) =>
        \A v \in {slots(set)}, w \in {slots(set')}, inv \in {sentinel(set)} :
          /\ last'.ret \in {"true", "false"}
          /\ Len(w) = Len(v)
          /\ sentinel(set') = inv
          /\ contains(set, last'.arg).some =>
                /\ last'.ret = "true"
                /\ Cardinality(Emptied(v, w, inv)) = 1
                /\ \A j \in Emptied(v, w, inv) :
                      \/ At(w, band(j + 1, w)) = inv
                      \/ dist(w, band(j + 1, w)) = 0
                /\ BagPlus(Live(set'), Live(set), cast(width(set.tag), last'.arg), 1)
      ]_vars

(* a remove from a table that had no empty slot, which left a displaced   *)
(* element behind *)
C25_Witness ==
    /\ last.op = "remove" /\ last.ret = "true"
    /\ set.tag \in Heap
    /\ Len(slots(set)) >= 4
    /\ len(set) = Len(slots(set)) - 1
    /\ \E i \in 0..(Len(slots(set)) - 1) :
          At(slots(set), i) # sentinel(set) /\ dist(slots(set), i) >= 1

---------------------------------------------------------------------------
(* the word a after k decrements with wrap *)
RECURSIVE Below(_, _)
Below(a, k) == IF k = 0 THEN a ELSE Below(wrapping_sub1(a), k - 1)

(* C26: sentinel relocation terminates and picks a free value: an         *)
(* insert(x) on the relocatable-sentinel form with x the current sentinel *)
(* returns, the new sentinel is x decremented at most len()+1 times, it   *)
(* differs from x and from every element, and every cell that held the    *)
(* old sentinel holds the new one: afterwards x occurs once, as the       *)
(* inserted element, and the trailing cell and every non-live slot hold   *)
(* the new sentinel.                                                      *)
C26_Relocation ==
    [][(last'.op = "insert" /\ set.tag = "Badu64" /\ last'.arg = sentinel(set)) =>
        \A x \in {last'.arg}, new \in {sentinel(set')}, old \in {Live(set)} :
          /\ last'.ret = "true"
          /\ set'.tag = "Badu64"
          /\ new # x
          /\ new \notin Range(old)
          /\ \E k \in 1..(len(set) + 1) : Below(x, k) = new
          /\ Count(set'.v, x) = 1
          /\ BagPlus(old, Live(set'), x, 1)
          /\ \A j \in 1..Len(set'.v) : set'.v[j] \in Range(old) \cup {x, new}
      ]_vars

(* a relocation that had to pass over an element: 2^64-1 is inserted      *)
(* while it is the sentinel and 2^64-2 is an element, and 2^64-3 becomes  *)
(* the sentinel *)
C26_Witness ==
    /\ last.op = "insert" /\ last.ret = "true" /\ last.arg = MAXU64
    /\ set.tag = "Badu64"
    /\ sentinel(set) = Pool[9]
    /\ \E i \in 0..(Len(slots(set)) - 1) : At(slots(set), i) = Pool[6]

---------------------------------------------------------------------------
(* C27: sentinel uniqueness in the relocatable-sentinel form: in every    *)
(* reachable state of that form the trailing cell holds a value that is   *)
(* no element of the set, every table slot holds an element or that       *)
(* value, and the slots holding it are exactly those not taken by the     *)
(* elements.                                                              *)
C27_SentinelUnique ==
    (set.tag = "Badu64" /\ running) =>
        \A v \in {slots(set)}, inv \in {set.v[Len(set.v)]} :
          /\ inv \notin refset
          /\ \A j \in 1..Len(v) : v[j] = inv \/ v[j] \in refset
          /\ Count(v, inv) = Len(v) - Cardinality(refset)

(* after a relocation: the sentinel is no longer 2^64-1, which is an      *)
(* element, and the table has live and empty slots *)
C27_Witness ==
    /\ set.tag = "Badu64" /\ running
    /\ sentinel(set) # MAXU64
    /\ MAXU64 \in refset
    /\ len(set) >= 2
    /\ last.op = "remove" /\ last.ret = "true"

---------------------------------------------------------------------------
(* the width in bits of the count field of each variant of Data *)
count_bits(tag) ==
    CASE tag \in {"Su8", "Vu8", "Su16", "Su32"} -> 8
      [] tag = "Vu16" -> 16
      [] OTHER -> 32

(* n is a value of an unsigned integer of the given width *)
FitsBits(n, bits) ==
    /\ n >= 0
    /\ CASE bits = 8  -> n < 256
         [] bits = 16 -> n < 65536
         [] OTHER     -> n \div 65536 < 65536

---------------------------------------------------------------------------
IsPowerOfTwo(n) == \E k \in 0..20 : n = 2 ^ k

(* C29: in every reachable heap state the slot table has a length that is *)
(* a power of two >= 1, so that `& (len - 1)` is the remainder modulo     *)
(* len; in the relocatable-sentinel form the storage is one cell longer.  *)
C29_PowerOfTwo ==
    set.tag \in Heap =>
        /\ IsPowerOfTwo(Len(slots(set)))
        /\ Len(slots(set)) >= 1
        /\ set.tag = "Badu64" => IsPowerOfTwo(Len(set.v) - 1)
        /\ set.tag # "Badu64" => Len(set.v) = Len(slots(set))

(* a relocatable-sentinel table after a resize, and after a drain *)
C29_Witness ==
    /\ set.tag = "Badu64"
    /\ Len(set.v) = 9
    /\ last.op = "drain"

---------------------------------------------------------------------------
(* C30: width admissibility: in every reachable state of a representation *)
(* with the fixed sentinel of width W, every stored element is below      *)
(* 2^W - 1 and is, as a 64-bit word, a value that was inserted, and every *)
(* inserted value is stored: no element is stored truncated, in place or  *)
(* when a promotion carries it over.                                      *)
C30_WidthAdmissible ==
    (set.tag # "Badu64" /\ running) =>
        \A live \in {Range(Live(set))} :
          /\ \A y \in live : Lt(y, invalid(width(set.tag)))
          /\ live = refset

(* 0 and 255 carried over into a 32-bit representation by the insert of   *)
(* 65535 *)
C30_Witness ==
    /\ set.tag \in {"Su32", "Vu32"} /\ running
    /\ last.op = "insert" /\ last.ret = "true" /\ last.arg = U(65535)
    /\ {U(0), U(255), U(65535)} \subseteq Range(Live(set))

---------------------------------------------------------------------------
(* the count of an inline form is within its array *)
WithinInline(s) ==
    s.tag \in Small => (s.sz <= NUM(width(s.tag)) /\ Len(s.v) = NUM(width(s.tag)))

(* C31: inline capacity is never exceeded: in every reachable inline      *)
(* state the count is at most 22, 11, 5 or 2 for the widths 8, 16, 32 and *)
(* 64, no insert fails on an index beyond the array, and the insert of an *)
(* admissible value into a full inline form ends in the heap form of the  *)
(* same width.                                                            *)
C31_InlineCapacity ==
    [][/\ WithinInline(set) /\ WithinInline(set')
       /\ last'.op = "insert" =>
            /\ last'.ret \in {"true", "false"}
            /\ (/\ set.tag \in Small
                /\ set.sz = NUM(width(set.tag))
                /\ Lt(last'.arg, invalid(width(set.tag))))
               => set'.tag = Vtag(width(set.tag))
      ]_vars

(* the 12th element of a 16-bit set: the full inline array was moved to   *)
(* a 16-bit table *)
C31_Witness ==
    /\ last.op = "insert" /\ last.ret = "true"
    /\ set.tag = "Vu16"
    /\ set.sz = NUM_U16 + 1

---------------------------------------------------------------------------
---------------------------------------------------------------------------
(* C33: remove(x) of a value that is not in the set returns false and     *)
(* leaves representation, slot array and count as they were, also when x  *)
(* is not admissible for the width or is the current sentinel: no element *)
(* that equals x truncated to the slot width is removed.                  *)
C33_RemoveAbsentNoop ==
    [][(last'.op = "remove" /\ last'.arg \notin refset) =>
        /\ last'.ret = "false"
        /\ set' = set
      ]_vars

(* 256, which is 0 when truncated to 8 bits, removed from an 8-bit set    *)
(* that holds 0 *)
C33_Witness ==
    /\ last.op = "remove" /\ last.ret = "false" /\ last.arg = U(256)
    /\ set.tag \in {"Su8", "Vu8"}
    /\ U(0) \in refset


(* C34: reserve_with_max(max, additional) is a no-op when nothing is      *)
(* needed: if max is below the sentinel of the current width (any max in  *)
(* the relocatable form) and count + additional is at most the inline     *)
(* capacity, or at most 10*L/11 for a heap table of L slots, then the     *)
(* call returns and representation, slot array and count are unchanged.   *)
Slots(s) == IF s.tag = "Badu64" THEN Len(s.v) - 1 ELSE Len(s.v)

NothingNeeded(s, max, additional) ==
    /\ s.tag = "Badu64" \/ Lt(max, invalid(width(s.tag)))
    /\ IF s.tag \in Small THEN s.sz + additional <= NUM(width(s.tag))
       ELSE s.sz + additional <= (10 * Slots(s)) \div 11

C34_ReserveNoop ==
    [][(last'.op = "reserve_with_max" /\ NothingNeeded(set, last'.arg, last'.add))
          => /\ last'.ret = "unit"
             /\ set' = set]_vars

(* a reservation of one more place in an inline 8-bit array that has     *)
(* exactly one free cell *)
C34_Witness ==
    /\ last.op = "reserve_with_max" /\ last.ret = "unit"
    /\ last.arg = U(1) /\ last.add = 1
    /\ set.tag = "Su8" /\ set.sz = NUM_U8 - 1


(* C35: a reservation is honoured: after reserve_with_max(max, n) has     *)
(* returned, the next n inserts of distinct new values <= max take no arm *)
(* of reserve_with_max that promotes the set, moves it to the heap or     *)
(* rebuilds the slot table.                                               *)
reserve_arm(s, max, additional) ==
    IF (s.tag \in Small \/ s.tag \in {"Vu8", "Vu16", "Vu32"})
       /\ Ge(max, invalid(width(s.tag))) THEN "promote"
    ELSE IF s.tag \in Small THEN
        IF s.sz + additional > NUM(width(s.tag)) THEN "heap" ELSE "none"
    ELSE IF s.tag = "Vu64" /\ Ge(max, invalid(64)) THEN "unimplemented"
    ELSE IF s.tag = "Badu64" THEN
        IF s.sz + additional + 1 > (Len(s.v) * 10) \div 11 THEN "resize" ELSE "none"
    ELSE
        IF s.sz + additional > (Len(s.v) * 10) \div 11 THEN "resize" ELSE "none"

RECURSIVE Undisturbed(_, _, _)
Undisturbed(s, xs, k) ==
    \/ k > Len(xs)
    \/ /\ reserve_arm(s, xs[k], 1) = "none"
       /\ Undisturbed(insert(s, xs[k]).set, xs, k + 1)

NewValues(n, max) ==
    { xs \in [1..n -> SmallValues] :
        /\ \A k \in 1..n : xs[k] \notin refset /\ ~Lt(max, xs[k])
        /\ \A j, k \in 1..n : j # k => xs[j] # xs[k] }

C35_ReservationHonoured ==
    (last.op = "reserve_with_max" /\ last.ret = "unit")
        => \A xs \in NewValues(last.add, last.arg) : Undisturbed(set, xs, 1)


(* C36: the slot width never decreases: over insert, remove,              *)
(* reserve_with_max and drain the width of the representation             *)
(* (8 < 16 < 32 < 64 < relocatable 64) does not go down, and a heap form  *)
(* becomes an inline form only in a step that strictly increases it.      *)
Rank(s) == IF s.tag = "Badu64" THEN 5
           ELSE IF width(s.tag) = 8 THEN 1
           ELSE IF width(s.tag) = 16 THEN 2
           ELSE IF width(s.tag) = 32 THEN 3
           ELSE 4

C36_WidthMonotone ==
    [][/\ Rank(set') >= Rank(set)
       /\ (set.tag \notin Small /\ set'.tag \in Small) => Rank(set') > Rank(set)]_vars

(* an emptied set widened by reserve_with_max(65535, _) into the inline  *)
(* 32-bit form *)
C36_Witness ==
    /\ last.op = "reserve_with_max" /\ last.arg = U(65535)
    /\ set.tag \in Small /\ Rank(set) = 3 /\ set.sz = 0


---------------------------------------------------------------------------
(* C37: map key/value co-location: in every reachable map state, for     *)
(* every live key at index i of the key array, the value array at index  *)
(* i holds the value most recently inserted for that key.                *)
CoLocated(m, ref) ==
    \A p \in Range(map_pairs(m)) : p[1] \in DOMAIN ref /\ ref[p[1]] = p[2]

C37_CoLocation == CoLocated(map, refmap)


(* C38: an out-of-domain insert into the inline 16-bit map is recovered  *)
(* by promotion: when insert(k, v) is called on the Su16 form with       *)
(* k >= 2^16 - 1 or v > 255, the map leaves the Su16 form for one that   *)
(* admits k and v, get(k) is Some(v) afterwards and every earlier pair   *)
(* is retained.                                                          *)
C38_Su16Promotes ==
    [][(/\ mlast'.op = "insert"
        /\ map.tag = "Su16"
        /\ (Ge(mlast'.k, invalid(16)) \/ Lt(U(255), mlast'.v)))
          => /\ ~mlast'.fail
             /\ map'.tag # "Su16"
             /\ map_get(map', mlast'.k) = SomeValue(mlast'.v)
             /\ \A i \in Probes \ {mlast'.k} : map_get(map', i) = map_get(map, i)]_vars


(* C39: the key width of the map never decreases: an insert into the     *)
(* inline 32-bit or 64-bit form that widens only because of a value      *)
(* above 255, with a key that fits the current width, leaves the keys in *)
(* an array at least as wide, and every key present before is still     *)
(* returned by get with its value.                                       *)
C39_KeyWidthKept ==
    [][(/\ mlast'.op = "insert"
        /\ map.tag \in {"Su32", "Su64"}
        /\ Lt(U(255), mlast'.v)
        /\ Lt(mlast'.k, invalid(width(map.tag))))
          => /\ ~mlast'.fail
             /\ width(map'.tag) >= width(map.tag)
             /\ \A i \in Probes \ {mlast'.k} : map_get(map', i) = map_get(map, i)]_vars


(* C40: the inline arrays of the map are never indexed out of bounds: in *)
(* every reachable inline map state the count is at most the inline      *)
(* capacity (23, 15, 9, 4 for key widths 8, 16, 32, 64), and an insert   *)
(* reaches insert_unchecked with count < capacity or with the key        *)
(* already present, so that no call panics.                              *)
MapWithinInline(m) ==
    m.tag \in Small =>
        /\ m.sz <= MAP_NUM(width(m.tag))
        /\ Len(m.keys) = MAP_NUM(width(m.tag)) /\ Len(m.vals) = MAP_NUM(width(m.tag))

HasRoom(m, k) ==
    m.tag \in Small =>
        \/ m.sz < MAP_NUM(width(m.tag))
        \/ scan(m.keys, m.sz, cast(width(m.tag), k), 0).some

C40_MapInlineBounds ==
    [][/\ MapWithinInline(map) /\ MapWithinInline(map')
       /\ mlast'.op = "insert" =>
             /\ ~mlast'.fail
             /\ \A r \in {reserve_with_maxes(map, mlast'.k, mlast'.v, 1)} :
                   ~r.fail /\ HasRoom(r.map, mlast'.k)]_vars

====
